---- MODULE Spec2Model ----
(***************************************************************************)
(* A model of the scan-cache-and-watch subsystem of neocmakelsp-fast:      *)
(* the directory cache (src/scanner/cache.rs), the scanner                 *)
(* (src/scanner/parallel.rs) and the file watcher (src/scanner/watcher.rs).*)
(***************************************************************************)
EXTENDS Integers, Sequences, FiniteSets, TLC

(***************************************************************************)
(* DEFAULT_TTL is the program's constant, in seconds.  MAX_CACHE_SIZE is   *)
(* the program's constant scaled down (cache.rs:8 sets 100 entries) so     *)
(* that a full cache is reached.  The clock advances TickStep seconds at a *)
(* time, up to MaxTime.                                                    *)
(***************************************************************************)
DEFAULT_TTL == 5

MAX_CACHE_SIZE == 3

TickStep == 5

MaxTime == 10

(***************************************************************************)
(* Paths.  A path is the sequence of its components (what                  *)
(* std::path::Path::components yields for an absolute path); a component   *)
(* is the sequence of its characters.                                      *)
(***************************************************************************)
P_a == << <<"a">> >>

P_ab == << <<"a">>, <<"b">> >>

P_abc == << <<"a">>, <<"b", "c">> >>

P_ab_c == << <<"a">>, <<"b">>, <<"c">> >>

P_d == << <<"d">> >>

\* The directory paths used as cache keys and scan targets.
Paths == {P_a, P_ab, P_abc, P_ab_c, P_d}

CMAKELISTS == <<"C", "M", "a", "k", "e", "L", "i", "s", "t", "s", ".", "t", "x", "t">>

GITIGNORE == <<".", "g", "i", "t", "i", "g", "n", "o", "r", "e">>

F_gitignore == P_a \o <<GITIGNORE>>

F_src == P_a \o << <<"m", ".", "c", "p", "p">> >>

F_cmake == P_ab \o <<CMAKELISTS>>

\* /a/A.CPP, a file whose extension is written in capitals, and /a/v.d, a
\* directory whose name has a dot.
F_upper == P_a \o << <<"A", ".", "C", "P", "P">> >>

P_dotted == P_a \o << <<"v", ".", "d">> >>

\* The paths that do not exist when the program starts.
LateNodes == {F_upper, P_dotted}

\* Every path the modelled filesystem can hold, in the order a directory
\* listing yields them (parents before their children).
NodeOrder ==
    <<P_a, F_gitignore, F_src, P_ab, F_cmake, P_ab_c, P_abc, P_d, F_upper,
      P_dotted>>

Nodes == {NodeOrder[i] : i \in 1..Len(NodeOrder)}

\* What each path can be when it exists.
NodeKinds(n) ==
    IF n \in {F_gitignore, F_src, F_cmake, F_upper} THEN {"file"}
    ELSE IF n = P_d THEN {"file", "dir"}
    ELSE {"dir"}

\* The directories scans are asked for, and the paths that are created and
\* removed while the program runs.
ScanDirs == {P_a, P_ab, P_abc, P_d}

Mutable == {P_d, P_ab, F_gitignore}

\* Path::parent and Path::file_name of a non-root path.
Parent(p) == SubSeq(p, 1, Len(p) - 1)

FileName(p) == p[Len(p)]

RECURSIVE PathStr(_)
\* The path as one string (a sequence of characters): "/a/bc".
PathStr(p) ==
    IF p = <<>> THEN <<>>
    ELSE PathStr(SubSeq(p, 1, Len(p) - 1)) \o <<"/">> \o p[Len(p)]

IsPrefixSeq(s, t) == Len(s) <= Len(t) /\ SubSeq(t, 1, Len(s)) = s

\* A plausible slip: prefix matching on the path's string form.
PathStartsWith_string(path, base) == IsPrefixSeq(PathStr(base), PathStr(path))

\* std::path::Path::starts_with: whole components of base, in order, at the
\* front of path.
PathStartsWith(path, base) ==
    /\ Len(base) <= Len(path)
    /\ \A i \in 1..Len(base) : path[i] = base[i]

(***************************************************************************)
(* CachedEntry values and the snapshots handed to insert.                  *)
(***************************************************************************)
None == <<>>

Some(x) == <<x>>

CachedEntry(name, is_dir, is_hidden, has_cmake, extension) ==
    [name |-> name, is_dir |-> is_dir, is_hidden |-> is_hidden,
     has_cmake |-> has_cmake, extension |-> extension]

E_file == CachedEntry(<<"f", ".", "t">>, FALSE, FALSE, FALSE, Some(<<"t">>))

E_dir == CachedEntry(<<"s">>, TRUE, FALSE, TRUE, None)

\* The entry sequences the callers of insert pass in this model.
Snapshots == {<<>>, <<E_file, E_dir>>}

\* The callers that run cache methods concurrently.
Threads == {"t1", "t2"}

\* The calls one thread makes in a run.
MaxCalls == 2

\* The longest sequence of entries filter_entries is tried on.
MaxEntries == 2

\* The most commands a caller of the handle lets wait, and the most events
\* the native watcher lets wait (the channels of the code are unbounded).
MaxCmds == 2

MaxEvents == 1

VARIABLES
    cache,   \* DirectoryCache.cache: PathBuf -> CachedDirectory
    now,     \* the monotonic clock read by Instant::now / elapsed
    last,    \* the call that ran last: its name, arguments and return value
    th,      \* per thread: where its call stands and the call's locals
    fs,      \* the filesystem: what each path of Nodes is
    w        \* the watcher: FILE_WATCHER, the task, its queues and watches

vars == <<cache, now, last, th, fs, w>>

concVars == <<th>>

fsVars == <<fs>>

watcherVars == <<w>>

(***************************************************************************)
(* DirectoryCache (cache.rs).  The pure part of each method is an operator *)
(* on the map c at clock reading t.                                        *)
(***************************************************************************)
CachedDirectory(entries, cached_at) ==
    [entries |-> entries, cached_at |-> cached_at]

MapRemove(c, path) == [k \in DOMAIN c \ {path} |-> c[k]]

\* DashMap::insert as it would be if it added the new entries to those of
\* a snapshot the key already has.
MapInsert_merged(c, path, v) ==
    [k \in DOMAIN c \cup {path} |->
        IF k # path THEN c[k]
        ELSE IF path \in DOMAIN c
        THEN [v EXCEPT !.entries = c[path].entries \o @]
        ELSE v]

MapInsert(c, path, v) ==
    [k \in DOMAIN c \cup {path} |-> IF k = path THEN v ELSE c[k]]

\* DashMap::retain, given the keys its closure keeps.
MapRetain(c, kept) == [k \in kept |-> c[k]]

is_expired_ge(dir, ttl, t) == t - dir.cached_at >= ttl

is_expired(dir, ttl, t) == t - dir.cached_at > ttl

\* The value get returns.
get_value(c, path, t) ==
    IF path \notin DOMAIN c THEN None
    ELSE IF is_expired(c[path], DEFAULT_TTL, t) THEN None
    ELSE Some(c[path].entries)

get_map_keep(c, path, t) == c

\* The map get leaves behind.
get_map(c, path, t) ==
    IF path \in DOMAIN c /\ is_expired(c[path], DEFAULT_TTL, t)
    THEN MapRemove(c, path)
    ELSE c

\* insert's test before it evicts (cache.rs:64).
is_full_gt(c) == Cardinality(DOMAIN c) > MAX_CACHE_SIZE

is_full(c) == Cardinality(DOMAIN c) >= MAX_CACHE_SIZE

oldest_keys_newest(c) ==
    {k \in DOMAIN c : \A j \in DOMAIN c : c[k].cached_at >= c[j].cached_at}

\* The keys the iteration of evict_oldest can end on: it keeps the first
\* key whose cached_at is strictly below all seen before, and DashMap
\* iterates in no fixed order, so it is any key of minimal cached_at.
oldest_keys(c) ==
    {k \in DOMAIN c : \A j \in DOMAIN c : c[k].cached_at <= c[j].cached_at}

\* The maps evict_oldest can leave.
evict_oldest(c) ==
    IF DOMAIN c = {} THEN {c} ELSE {MapRemove(c, v) : v \in oldest_keys(c)}

\* The maps insert can leave.
insert(c, path, entries, t) ==
    {MapInsert(d, path, CachedDirectory(entries, t)) :
        d \in IF is_full(c) THEN evict_oldest(c) ELSE {c}}

invalidate_noop(c, path) == c

invalidate(c, path) == MapRemove(c, path)

invalidate_subtree_inverted(c, root) ==
    MapRetain(c, {path \in DOMAIN c : PathStartsWith(path, root)})

invalidate_subtree(c, root) ==
    MapRetain(c, {path \in DOMAIN c : ~PathStartsWith(path, root)})

clear(c) == [k \in {} |-> k]

cleanup_expired(c, t) ==
    MapRetain(c, {path \in DOMAIN c : ~is_expired(c[path], DEFAULT_TTL, t)})

stats(c, t) ==
    [total |-> Cardinality(DOMAIN c),
     valid |-> Cardinality({k \in DOMAIN c : ~is_expired(c[k], DEFAULT_TTL, t)}),
     expired |-> Cardinality({k \in DOMAIN c : is_expired(c[k], DEFAULT_TTL, t)})]

(***************************************************************************)
(* The filesystem as the scanner sees it.  f maps each path of Nodes to    *)
(* "absent", "file" or "dir"; the root directory always exists.            *)
(***************************************************************************)
\* Path::exists and Path::is_dir.
Exists(f, p) == p = <<>> \/ (p \in Nodes /\ f[p] # "absent")

IsDir(f, p) == p = <<>> \/ (p \in Nodes /\ f[p] = "dir")

\* std::fs::read_dir: the existing children of dir, in listing order.
ReadDir(f, dir) ==
    LET IsChild(n) == Parent(n) = dir /\ f[n] # "absent"
    IN SelectSeq(NodeOrder, IsChild)

\* str::starts_with('.') on a file name.
IsHiddenName(name) == Len(name) > 0 /\ name[1] = "."

\* Path::extension: the part of the file name after its last dot; none when
\* the name has no dot, or only a leading one, or is "..".
Extension(name) ==
    LET dots == {i \in 1..Len(name) : name[i] = "."}
        lastdot == CHOOSE i \in dots : \A j \in dots : j <= i
    IN IF name = <<".", ".">> \/ dots = {} THEN None
       ELSE IF lastdot = 1 THEN None
       ELSE Some(SubSeq(name, lastdot + 1, Len(name)))

\* The ignore rule of the modelled tree: /a/.gitignore, when it exists,
\* lists the name bc, which excludes /a/bc.
GitIgnored(f, n) == n = P_abc /\ Exists(f, F_gitignore)

(***************************************************************************)
(* ScanOptions and its presets (parallel.rs:8-95).                         *)
(***************************************************************************)
ScanOptions(dirs_only, extensions, include_hidden, check_cmake, max_depth, respect_gitignore) ==
    [dirs_only |-> dirs_only, extensions |-> extensions,
     include_hidden |-> include_hidden, check_cmake |-> check_cmake,
     max_depth |-> max_depth, respect_gitignore |-> respect_gitignore]

default_options == ScanOptions(FALSE, None, FALSE, FALSE, None, FALSE)

for_subdirectory == ScanOptions(TRUE, None, FALSE, TRUE, Some(1), TRUE)

for_include ==
    ScanOptions(FALSE, Some(<< <<"c", "m", "a", "k", "e">> >>), FALSE, FALSE,
                Some(1), TRUE)

SourceExtensions ==
    << <<"c">>, <<"c", "c">>, <<"c", "p", "p">>, <<"c", "x", "x">>,
       <<"c", "+", "+">>, <<"h">>, <<"h", "h">>, <<"h", "p", "p">>,
       <<"h", "x", "x">>, <<"h", "+", "+">>, <<"m">>, <<"m", "m">>,
       <<"c", "u">>, <<"c", "u", "h">>, <<"a", "s", "m">>, <<"s">>, <<"f">>,
       <<"f", "9", "0">>, <<"f", "9", "5">>, <<"f", "o", "r">>, <<"r", "c">> >>

\* The source-file preset as it would be without its allow-list.
for_source_files_any == ScanOptions(FALSE, None, FALSE, FALSE, Some(1), TRUE)

for_source_files ==
    ScanOptions(FALSE, Some(SourceExtensions), FALSE, FALSE, Some(1), TRUE)

for_any_file == ScanOptions(FALSE, None, FALSE, FALSE, Some(1), TRUE)

for_directory == ScanOptions(TRUE, None, FALSE, FALSE, Some(1), TRUE)

\* The policies scans are called with.
Policies ==
    {default_options, for_subdirectory, for_include, for_source_files,
     for_any_file, for_directory}

\* Vec::contains.
Contains(seq, x) == \E i \in 1..Len(seq) : seq[i] = x

(***************************************************************************)
(* The scanner (parallel.rs:97-241).                                       *)
(***************************************************************************)
\* The walk as it would be if max_depth were not handed to the walker.
Walk_unbounded(f, dir, options) ==
    LET Passes(n) ==
            /\ f[n] # "absent"
            /\ ~(IsHiddenName(FileName(n)) /\ ~options.include_hidden)
            /\ ~(options.respect_gitignore /\ GitIgnored(f, n))
        Yielded(n) ==
            /\ Len(n) > Len(dir)
            /\ PathStartsWith(n, dir)
            /\ \A k \in (Len(dir) + 1)..Len(n) :
                 /\ SubSeq(n, 1, k) \in Nodes
                 /\ Passes(SubSeq(n, 1, k))
                 /\ k < Len(n) => f[SubSeq(n, 1, k)] = "dir"
    IN SelectSeq(NodeOrder, Yielded)

\* The paths the ignore crate's walker yields below dir, in listing order:
\* every path at most max_depth levels below dir whose chain of ancestors
\* up to dir exists, consists of directories, and is neither hidden (unless
\* include_hidden) nor excluded by an ignore rule (when respect_gitignore).
Walk(f, dir, options) ==
    LET Passes(n) ==
            /\ f[n] # "absent"
            /\ ~(IsHiddenName(FileName(n)) /\ ~options.include_hidden)
            /\ ~(options.respect_gitignore /\ GitIgnored(f, n))
        Yielded(n) ==
            /\ Len(n) > Len(dir)
            /\ PathStartsWith(n, dir)
            /\ options.max_depth # None
                 => Len(n) - Len(dir) <= options.max_depth[1]
            /\ \A k \in (Len(dir) + 1)..Len(n) :
                 /\ SubSeq(n, 1, k) \in Nodes
                 /\ Passes(SubSeq(n, 1, k))
                 /\ k < Len(n) => f[SubSeq(n, 1, k)] = "dir"
    IN SelectSeq(NodeOrder, Yielded)

\* The allow-list test as it would be without the exemption of directories.
ExtensionAllowed_dirs_too(options, is_dir, extension) ==
    \/ options.extensions = None
    \/ (extension # None /\ Contains(options.extensions[1], extension[1]))

\* The allow-list test both passes share: a non-directory goes through only
\* with an extension that is in the list.
ExtensionAllowed(options, is_dir, extension) ==
    \/ options.extensions = None
    \/ is_dir
    \/ (extension # None /\ Contains(options.extensions[1], extension[1]))

\* scan_directory_internal as it would be without its dirs_only test.
scan_directory_internal_files(f, dir, options) ==
    IF ~Exists(f, dir) \/ ~IsDir(f, dir) THEN <<>>
    ELSE
      LET Entry(n) ==
              CachedEntry(FileName(n), IsDir(f, n), IsHiddenName(FileName(n)),
                          IsDir(f, n) /\ options.check_cmake
                              /\ Exists(f, n \o <<CMAKELISTS>>),
                          Extension(FileName(n)))
          Accepted(n) ==
              /\ ~(IsHiddenName(FileName(n)) /\ ~options.include_hidden)
              /\ ExtensionAllowed(options, IsDir(f, n), Extension(FileName(n)))
          kept == SelectSeq(Walk(f, dir, options), Accepted)
      IN [i \in 1..Len(kept) |-> Entry(kept[i])]

scan_directory_internal(f, dir, options) ==
    IF ~Exists(f, dir) \/ ~IsDir(f, dir) THEN <<>>
    ELSE
      LET Entry(n) ==
              CachedEntry(FileName(n), IsDir(f, n), IsHiddenName(FileName(n)),
                          IsDir(f, n) /\ options.check_cmake
                              /\ Exists(f, n \o <<CMAKELISTS>>),
                          Extension(FileName(n)))
          Accepted(n) ==
              /\ ~(IsHiddenName(FileName(n)) /\ ~options.include_hidden)
              /\ ~(options.dirs_only /\ ~IsDir(f, n))
              /\ ExtensionAllowed(options, IsDir(f, n), Extension(FileName(n)))
          kept == SelectSeq(Walk(f, dir, options), Accepted)
      IN [i \in 1..Len(kept) |-> Entry(kept[i])]

\* scan_directory_full as it would be if it never probed for the marker.
scan_directory_full_unprobed(f, dir) ==
    IF ~Exists(f, dir) \/ ~IsDir(f, dir) THEN <<>>
    ELSE
      LET Entry(n) ==
              CachedEntry(FileName(n), IsDir(f, n), IsHiddenName(FileName(n)),
                          FALSE, Extension(FileName(n)))
          listed == ReadDir(f, dir)
      IN [i \in 1..Len(listed) |-> Entry(listed[i])]

\* scan_directory_full as it would be if it skipped hidden names.
scan_directory_full_visible(f, dir) ==
    IF ~Exists(f, dir) \/ ~IsDir(f, dir) THEN <<>>
    ELSE
      LET Entry(n) ==
              CachedEntry(FileName(n), IsDir(f, n), IsHiddenName(FileName(n)),
                          IsDir(f, n) /\ Exists(f, n \o <<CMAKELISTS>>),
                          Extension(FileName(n)))
          Visible(n) == ~IsHiddenName(FileName(n))
          listed == SelectSeq(ReadDir(f, dir), Visible)
      IN [i \in 1..Len(listed) |-> Entry(listed[i])]

scan_directory_full(f, dir) ==
    IF ~Exists(f, dir) \/ ~IsDir(f, dir) THEN <<>>
    ELSE
      LET Entry(n) ==
              CachedEntry(FileName(n), IsDir(f, n), IsHiddenName(FileName(n)),
                          IsDir(f, n) /\ Exists(f, n \o <<CMAKELISTS>>),
                          Extension(FileName(n)))
          listed == ReadDir(f, dir)
      IN [i \in 1..Len(listed) |-> Entry(listed[i])]

\* filter_entries as it would be if it lost the first entry it keeps.
filter_entries_tail(entries, options) ==
    LET Kept(entry) ==
            /\ ~(entry.is_hidden /\ ~options.include_hidden)
            /\ ~(options.dirs_only /\ ~entry.is_dir)
            /\ ExtensionAllowed(options, entry.is_dir, entry.extension)
        kept == SelectSeq(entries, Kept)
    IN IF kept = <<>> THEN <<>> ELSE Tail(kept)

filter_entries(entries, options) ==
    LET Kept(entry) ==
            /\ ~(entry.is_hidden /\ ~options.include_hidden)
            /\ ~(options.dirs_only /\ ~entry.is_dir)
            /\ ExtensionAllowed(options, entry.is_dir, entry.extension)
    IN SelectSeq(entries, Kept)

\* The value scan_directory returns: the cached snapshot filtered on a hit,
\* the direct walk on a miss.
scan_directory_value(c, f, dir, options, t) ==
    IF get_value(c, dir, t) # None
    THEN filter_entries(get_value(c, dir, t)[1], options)
    ELSE scan_directory_internal(f, dir, options)

\* scan_directory as it would be if it listed and stored the directory on
\* a hit as well.
scan_directory_maps_relist(c, f, dir, options, t) ==
    insert(get_map(c, dir, t), dir, scan_directory_full(f, dir), t)

\* The maps scan_directory can leave: get's, and on a miss the insert of the
\* full listing on top.
scan_directory_maps(c, f, dir, options, t) ==
    IF get_value(c, dir, t) # None
    THEN {get_map(c, dir, t)}
    ELSE insert(get_map(c, dir, t), dir, scan_directory_full(f, dir), t)

\* The record of a call: what ran, on what, what it returned, and what the
\* map held when it began (len() and contains_key(path) at that moment).
Call(op, path, arg, result) ==
    [op |-> op, path |-> path, arg |-> arg, result |-> result,
     len |-> Cardinality(DOMAIN cache), was_key |-> path \in DOMAIN cache]

(***************************************************************************)
(* The cache's methods called one after the other.                         *)
(***************************************************************************)
Init ==
    /\ cache = [k \in {} |-> k]
    /\ now = 0
    /\ last = Call("new", None, None, None)
    /\ th = [t \in Threads |->
               [pc |-> "idle", path |-> None, entries |-> None,
                oldest |-> None, calls |-> 0, valid |-> 0, expired |-> 0,
                options |-> None, result |-> None]]
    /\ fs = [n \in Nodes |-> IF n \in LateNodes THEN "absent"
                             ELSE IF "dir" \in NodeKinds(n) THEN "dir"
                             ELSE "file"]
    /\ w = [once |-> "empty", handle |-> None, queues |-> 0, tasks |-> 0,
            task |-> "none", cmds |-> <<>>, events |-> <<>>, watched |-> {}]

Tick ==
    /\ now + TickStep <= MaxTime
    /\ now' = now + TickStep
    /\ last' = Call("tick", None, None, None)
    /\ UNCHANGED <<cache, concVars, fsVars, watcherVars>>

Get(path) ==
    /\ cache' = get_map(cache, path, now)
    /\ last' = Call("get", path, None, get_value(cache, path, now))
    /\ UNCHANGED <<now, concVars, fsVars, watcherVars>>

Insert(path, entries) ==
    /\ cache' \in insert(cache, path, entries, now)
    /\ last' = Call("insert", path, entries, None)
    /\ UNCHANGED <<now, concVars, fsVars, watcherVars>>

Invalidate(path) ==
    /\ cache' = invalidate(cache, path)
    /\ last' = Call("invalidate", path, None, None)
    /\ UNCHANGED <<now, concVars, fsVars, watcherVars>>

InvalidateSubtree(root) ==
    /\ cache' = invalidate_subtree(cache, root)
    /\ last' = Call("invalidate_subtree", root, None, None)
    /\ UNCHANGED <<now, concVars, fsVars, watcherVars>>

Clear ==
    /\ cache' = clear(cache)
    /\ last' = Call("clear", None, None, None)
    /\ UNCHANGED <<now, concVars, fsVars, watcherVars>>

CleanupExpired ==
    /\ cache' = cleanup_expired(cache, now)
    /\ last' = Call("cleanup_expired", None, None, None)
    /\ UNCHANGED <<now, concVars, fsVars, watcherVars>>

Stats ==
    /\ last' = Call("stats", None, None, stats(cache, now))
    /\ UNCHANGED <<cache, now, concVars, fsVars, watcherVars>>

NextCache ==
    \/ Tick
    \/ \E path \in Paths : Get(path)
    \/ \E path \in Paths, entries \in Snapshots : Insert(path, entries)
    \/ \E path \in Paths : Invalidate(path)
    \/ \E root \in Paths : InvalidateSubtree(root)
    \/ Clear
    \/ CleanupExpired
    \/ Stats

SpecCache == Init /\ [][NextCache]_vars

(***************************************************************************)
(* insert called from several threads at once.  Each thread runs insert    *)
(* (cache.rs:63-74) and the evict_oldest it calls (cache.rs:94-110) one    *)
(* DashMap operation at a time: len(), the iteration, remove(), insert().  *)
(***************************************************************************)
\* A map that lets every writer in, whoever reads.
read_locked_never(h, k) == FALSE

\* Some thread holds the reference DashMap::get gave it for key k (get of
\* cache.rs:54-60, from the lookup to drop(entry) or to the end of the
\* clone): remove, insert and retain wait for it before they touch k.
read_locked(h, k) ==
    \E t \in Threads : h[t].pc \in {"get_ref", "get_clone"} /\ h[t].path = k

ConcInsertCall(t, path, entries) ==
    /\ th[t].pc = "idle"
    /\ th[t].calls < MaxCalls
    /\ th' = [th EXCEPT ![t].pc = "len", ![t].path = path,
                        ![t].entries = entries, ![t].oldest = None]
    /\ UNCHANGED <<cache, now, last, fsVars, watcherVars>>

ConcInsertLen(t) ==
    /\ th[t].pc = "len"
    /\ th' = [th EXCEPT ![t].pc = IF is_full(cache) THEN "iter" ELSE "put"]
    /\ UNCHANGED <<cache, now, last, fsVars, watcherVars>>

ConcEvictIter(t) ==
    /\ th[t].pc = "iter"
    /\ \E o \in IF DOMAIN cache = {} THEN {None}
                 ELSE {Some(k) : k \in oldest_keys(cache)} :
          th' = [th EXCEPT ![t].pc = "remove", ![t].oldest = o]
    /\ UNCHANGED <<cache, now, last, fsVars, watcherVars>>

ConcEvictRemove(t) ==
    /\ th[t].pc = "remove"
    /\ th[t].oldest = None \/ ~read_locked(th, th[t].oldest[1])
    /\ cache' = IF th[t].oldest = None THEN cache
                ELSE MapRemove(cache, th[t].oldest[1])
    /\ th' = [th EXCEPT ![t].pc = "put"]
    /\ UNCHANGED <<now, last, fsVars, watcherVars>>

ConcInsertPut(t) ==
    /\ th[t].pc = "put"
    /\ ~read_locked(th, th[t].path)
    /\ cache' = MapInsert(cache, th[t].path,
                          CachedDirectory(th[t].entries, now))
    /\ th' = [th EXCEPT ![t].pc = "idle", ![t].path = None,
                        ![t].entries = None, ![t].oldest = None,
                        ![t].calls = @ + 1]
    /\ UNCHANGED <<now, last, fsVars, watcherVars>>

ConcTick ==
    /\ now + TickStep <= MaxTime
    /\ now' = now + TickStep
    /\ UNCHANGED <<cache, last, th, fsVars, watcherVars>>

NextConc ==
    \/ ConcTick
    \/ \E t \in Threads, path \in Paths, entries \in Snapshots :
          ConcInsertCall(t, path, entries)
    \/ \E t \in Threads : ConcInsertLen(t)
    \/ \E t \in Threads : ConcEvictIter(t)
    \/ \E t \in Threads : ConcEvictRemove(t)
    \/ \E t \in Threads : ConcInsertPut(t)

SpecConc == Init /\ [][NextConc]_vars

(***************************************************************************)
(* Scans of a filesystem that changes between them.                        *)
(***************************************************************************)
Scan(dir, options) ==
    /\ cache' \in scan_directory_maps(cache, fs, dir, options, now)
    /\ last' = Call("scan", dir, options,
                    scan_directory_value(cache, fs, dir, options, now))
    /\ UNCHANGED <<now, concVars, fsVars, watcherVars>>

\* Something outside the program creates a file or a directory.
FsCreate(n, kind) ==
    /\ fs[n] = "absent"
    /\ IsDir(fs, Parent(n))
    /\ kind \in NodeKinds(n)
    /\ fs' = [fs EXCEPT ![n] = kind]
    /\ last' = Call("fs", None, None, None)
    /\ UNCHANGED <<cache, now, concVars, watcherVars>>

\* Something outside the program removes a path and everything under it.
FsRemove(n) ==
    /\ fs[n] # "absent"
    /\ fs' = [m \in Nodes |-> IF PathStartsWith(m, n) THEN "absent" ELSE fs[m]]
    /\ last' = Call("fs", None, None, None)
    /\ UNCHANGED <<cache, now, concVars, watcherVars>>

\* Time passes until every snapshot cached so far is older than the TTL.
TickPastTTL ==
    /\ now + DEFAULT_TTL + TickStep <= MaxTime
    /\ now' = now + DEFAULT_TTL + TickStep
    /\ last' = Call("tick", None, None, None)
    /\ UNCHANGED <<cache, concVars, fsVars, watcherVars>>

NextScan ==
    \/ TickPastTTL
    \/ \E dir \in ScanDirs, options \in Policies : Scan(dir, options)
    \/ \E n \in Mutable, kind \in {"file", "dir"} : FsCreate(n, kind)
    \/ \E n \in Mutable : FsRemove(n)

SpecScan == Init /\ [][NextScan]_vars

(***************************************************************************)
(* filter_entries on its own: applied to a sequence of entries under a     *)
(* policy, and applied again to what it returned.                          *)
(***************************************************************************)
\* The values of CachedEntry.extension the filter is tried on.
FilterExtensions == {None, Some(<<"c", "p", "p">>), Some(<<"t", "x", "t">>)}

\* CachedEntry values, their fields set freely as the struct allows.
FilterEntries ==
    {CachedEntry(<<"n">>, d, h, FALSE, e) :
        d \in BOOLEAN, h \in BOOLEAN, e \in FilterExtensions}

\* Vec<CachedEntry> values of at most MaxEntries entries.
EntrySeqs == UNION {[1..k -> FilterEntries] : k \in 0..MaxEntries}

\* ScanOptions values: the presets, and every setting of the three fields
\* filter_entries reads.
FilterPolicies ==
    Policies \cup
    {ScanOptions(d, e, h, FALSE, Some(1), FALSE) :
        d \in BOOLEAN, h \in BOOLEAN,
        e \in {None, Some(<< <<"c", "p", "p">> >>), Some(SourceExtensions)}}

\* One call of filter_entries, on a cache nothing has touched yet.
FilterCall(entries, options) ==
    /\ last.op = "new"
    /\ last' = Call("filter_entries", None, <<entries, options>>,
                    filter_entries(entries, options))
    /\ UNCHANGED <<cache, now, concVars, fsVars, watcherVars>>

\* filter_entries on the sequence the last call returned, same policy.
FilterAgain ==
    /\ last.op = "filter_entries"
    /\ last' = Call("filter_again", None, <<last.result, last.arg[2]>>,
                    filter_entries(last.result, last.arg[2]))
    /\ UNCHANGED <<cache, now, concVars, fsVars, watcherVars>>

NextFilter ==
    \/ \E entries \in EntrySeqs, options \in FilterPolicies :
          FilterCall(entries, options)
    \/ FilterAgain

SpecFilter == Init /\ [][NextFilter]_vars

(***************************************************************************)
(* The watcher's event handler (watcher.rs:110-134).  An event is a kind   *)
(* of the notify crate and the paths it carries.                           *)
(***************************************************************************)
\* EventKind values, written as the patterns that match them.
RelevantKinds ==
    {"Create(File)", "Create(Folder)", "Remove(File)", "Remove(Folder)",
     "Modify(Name(Both))", "Modify(Name(From))", "Modify(Name(To))"}

EventKinds ==
    RelevantKinds \cup
    {"Create(Any)", "Remove(Any)", "Modify(Name(Any))", "Modify(Data(Any))",
     "Access(Any)"}

\* The paths events are about: cached directories and a file in one.
EventPaths == {P_a, P_ab, P_abc, P_ab_c, F_cmake}

\* Event.paths: a rename that knows both names carries the old and the new
\* path, every other event one path.
PathsOfKind(kind) ==
    IF kind = "Modify(Name(Both))" THEN [1..2 -> EventPaths]
    ELSE [1..1 -> EventPaths]

\* The test as it would be if it matched every Modify and Remove.
should_invalidate_wide(kind) ==
    kind \in RelevantKinds \cup
             {"Remove(Any)", "Modify(Name(Any))", "Modify(Data(Any))"}

should_invalidate(kind) == kind \in RelevantKinds

\* The loop body as it would be if every relevant event dropped the
\* subtree of its path.
handle_path_subtree_always(c, kind, path) ==
    invalidate_subtree(invalidate(c, Parent(path)), path)

\* The loop body as it would be without the invalidation of the parent.
handle_path_subtree_only(c, kind, path) ==
    IF kind = "Remove(Folder)" THEN invalidate_subtree(c, path) ELSE c

\* The body of the loop over event.paths: the parent's entry goes, and for
\* a removed folder everything at or under the path as well.
handle_path(c, kind, path) ==
    LET parent == IF Len(path) > 0 THEN Some(Parent(path)) ELSE None
        c1 == IF parent # None THEN invalidate(c, parent[1]) ELSE c
    IN IF kind = "Remove(Folder)" THEN invalidate_subtree(c1, path) ELSE c1

RECURSIVE handle_paths(_, _, _)
handle_paths(c, kind, paths) ==
    IF paths = <<>> THEN c
    ELSE handle_paths(handle_path(c, kind, Head(paths)), kind, Tail(paths))

handle_fs_event(c, kind, paths) ==
    IF ~should_invalidate(kind) THEN c ELSE handle_paths(c, kind, paths)

\* The watcher's loop takes an event from its queue and handles it.
HandleFsEvent(kind, paths) ==
    /\ cache' = handle_fs_event(cache, kind, paths)
    /\ last' = Call("fs_event", None, <<kind, paths>>, None)
    /\ UNCHANGED <<now, concVars, fsVars, watcherVars>>

NextWatch ==
    \/ \E path \in Paths, entries \in Snapshots : Insert(path, entries)
    \/ \E kind \in EventKinds :
          \E paths \in PathsOfKind(kind) : HandleFsEvent(kind, paths)

SpecWatch == Init /\ [][NextWatch]_vars

(***************************************************************************)
(* The watcher's life (watcher.rs:14-108): FILE_WATCHER and the callers of *)
(* init_file_watcher, the task run_watcher with its two queues, and the    *)
(* handle's senders.  w.once is the OnceLock's state, w.handle the queue   *)
(* whose sender the stored handle holds, w.queues and w.tasks count the    *)
(* command queues created and the tasks spawned, w.task is where           *)
(* run_watcher stands, w.watched the native watcher's registrations.       *)
(***************************************************************************)
\* The directory the callers ask the watcher to watch, and the events the
\* native watcher reports for it.
WatchDir == P_ab

WatchCommand(cmd, path) == [cmd |-> cmd, path |-> path]

Commands ==
    {WatchCommand("Watch", WatchDir), WatchCommand("Unwatch", WatchDir),
     WatchCommand("Shutdown", None)}

Events ==
    {<<"Create(File)", <<F_cmake>> >>, <<"Modify(Data(Any))", <<F_cmake>> >>}

\* OnceLock::get_or_init as it would be without the exclusion of callers
\* that arrive while the closure runs.
once_try_racy(x) == IF x.once = "set" THEN "done" ELSE "run"

\* OnceLock::get_or_init as it would be if a finished task counted as no
\* watcher.
once_try_restart(x) ==
    IF x.once = "empty" \/ x.task = "shutdown" THEN "run"
    ELSE IF x.once = "initializing" THEN "wait"
    ELSE "done"

\* OnceLock::get_or_init: the first caller runs the closure, a caller that
\* arrives meanwhile waits, a later one finds the value.
once_try(x) ==
    IF x.once = "empty" THEN "run"
    ELSE IF x.once = "initializing" THEN "wait"
    ELSE "done"

\* FILE_WATCHER.get().
get_file_watcher(x) == IF x.once = "set" THEN x.handle ELSE None

\* The receiver of the command queue is gone once run_watcher returned.
receiver_dropped(x) == x.task \in {"failed", "shutdown"}

\* UnboundedSender::send as it would be if it queued without a receiver.
send_unchecked(x, cmd) == [x EXCEPT !.cmds = Append(@, cmd)]

\* UnboundedSender::send from watch, unwatch and shutdown: queued, or
\* dropped with a warning when the receiver is gone.
send(x, cmd) ==
    IF receiver_dropped(x) THEN x ELSE [x EXCEPT !.cmds = Append(@, cmd)]

\* run_watcher returns: its receivers and the native watcher are dropped.
run_watcher_exit(x, task) ==
    [x EXCEPT !.task = task, !.cmds = <<>>, !.events = <<>>, !.watched = {}]

\* The command arm as it would be if Shutdown did not leave the loop.
process_command_no_break(x, cmd, ok) ==
    IF cmd.cmd = "Watch"
    THEN IF ok THEN [x EXCEPT !.watched = @ \cup {cmd.path}] ELSE x
    ELSE IF cmd.cmd = "Unwatch"
    THEN [x EXCEPT !.watched = @ \ {cmd.path}]
    ELSE x

\* The command arm as it would be if Unwatch left the registration alone.
process_command_unwatch_kept(x, cmd, ok) ==
    IF cmd.cmd = "Watch"
    THEN IF ok THEN [x EXCEPT !.watched = @ \cup {cmd.path}] ELSE x
    ELSE IF cmd.cmd = "Unwatch"
    THEN x
    ELSE run_watcher_exit(x, "shutdown")

\* The command arm of the loop (watcher.rs:82-101); ok says whether the
\* native watcher accepted the path.
process_command(x, cmd, ok) ==
    IF cmd.cmd = "Watch"
    THEN IF ok THEN [x EXCEPT !.watched = @ \cup {cmd.path}] ELSE x
    ELSE IF cmd.cmd = "Unwatch"
    THEN [x EXCEPT !.watched = @ \ {cmd.path}]
    ELSE run_watcher_exit(x, "shutdown")

\* select! as it would be with the event arm polled first and alone.
command_ready_biased(x) ==
    x.task = "running" /\ x.cmds # <<>> /\ x.events = <<>>

\* The command arm of select! is ready.
command_ready(x) == x.task = "running" /\ x.cmds # <<>>

\* select! as it would be with the command arm polled first and alone.
event_ready_biased(x) ==
    x.task = "running" /\ x.events # <<>> /\ x.cmds = <<>>

\* The event arm of select! is ready.
event_ready(x) == x.task = "running" /\ x.events # <<>>

\* init_file_watcher reaches get_or_init.
InitFileWatcherEnter(t) ==
    /\ th[t].pc = "idle"
    /\ once_try(w) # "wait"
    /\ IF once_try(w) = "run"
       THEN /\ th' = [th EXCEPT ![t].pc = "init_closure"]
            /\ w' = [w EXCEPT !.once = "initializing"]
       ELSE /\ th' = [th EXCEPT ![t].pc = "init_get"]
            /\ w' = w
    /\ UNCHANGED <<cache, now, last, fsVars>>

\* The closure: a new command queue, run_watcher spawned on its receiver,
\* and the handle with its sender stored.
InitFileWatcherClosure(t) ==
    /\ th[t].pc = "init_closure"
    /\ th' = [th EXCEPT ![t].pc = "init_get"]
    /\ w' = [w EXCEPT !.once = "set", !.handle = Some(w.queues + 1),
                      !.queues = @ + 1, !.tasks = @ + 1,
                      !.task = "spawned", !.cmds = <<>>]
    /\ UNCHANGED <<cache, now, last, fsVars>>

\* init_file_watcher returns FILE_WATCHER.get().
InitFileWatcherReturn(t) ==
    /\ th[t].pc = "init_get"
    /\ th' = [th EXCEPT ![t].pc = "idle"]
    /\ last' = Call("init_file_watcher", None, None, get_file_watcher(w))
    /\ UNCHANGED <<cache, now, fsVars, watcherVars>>

GetFileWatcher ==
    /\ last' = Call("get_file_watcher", None, None, get_file_watcher(w))
    /\ UNCHANGED <<cache, now, concVars, fsVars, watcherVars>>

\* run_watcher starts: the native watcher is built (ok) or not.
RunWatcherStart(ok) ==
    /\ w.task = "spawned"
    /\ w' = IF ok THEN [w EXCEPT !.task = "running"]
            ELSE run_watcher_exit(w, "failed")
    /\ last' = Call("run_watcher", None, ok, None)
    /\ UNCHANGED <<cache, now, concVars, fsVars>>

\* FileWatcherHandle::watch, unwatch and shutdown on the stored handle.
HandleSend(cmd) ==
    /\ get_file_watcher(w) # None
    /\ Len(w.cmds) < MaxCmds
    /\ w' = send(w, cmd)
    /\ last' = Call(cmd.cmd, cmd.path, None, None)
    /\ UNCHANGED <<cache, now, concVars, fsVars>>

\* The loop takes the command arm.
RunWatcherCommand(ok) ==
    /\ command_ready(w)
    /\ w' = process_command([w EXCEPT !.cmds = Tail(@)], Head(w.cmds), ok)
    /\ last' = Call("command", None, Head(w.cmds), None)
    /\ UNCHANGED <<cache, now, concVars, fsVars>>

\* The native watcher's callback queues an event about a watched directory.
NotifyEvent(event) ==
    /\ w.task = "running"
    /\ WatchDir \in w.watched
    /\ Len(w.events) < MaxEvents
    /\ w' = [w EXCEPT !.events = Append(@, event)]
    /\ last' = Call("notify", None, event, None)
    /\ UNCHANGED <<cache, now, concVars, fsVars>>

\* The loop takes the event arm.
RunWatcherEvent ==
    /\ event_ready(w)
    /\ cache' = handle_fs_event(cache, Head(w.events)[1], Head(w.events)[2])
    /\ w' = [w EXCEPT !.events = Tail(@)]
    /\ last' = Call("fs_event", None, Head(w.events), None)
    /\ UNCHANGED <<now, concVars, fsVars>>

RunWatcherStep ==
    \/ \E ok \in BOOLEAN : RunWatcherCommand(ok)
    \/ RunWatcherEvent

NextLife ==
    \/ \E t \in Threads : InitFileWatcherEnter(t)
    \/ \E t \in Threads : InitFileWatcherClosure(t)
    \/ \E t \in Threads : InitFileWatcherReturn(t)
    \/ GetFileWatcher
    \/ \E ok \in BOOLEAN : RunWatcherStart(ok)
    \/ \E cmd \in Commands : HandleSend(cmd)
    \/ \E event \in Events : NotifyEvent(event)
    \/ RunWatcherStep
    \/ Insert(WatchDir, <<>>)

SpecLife == Init /\ [][NextLife]_vars

\* The same under the runtime's scheduling: the task runs when it can, and
\* select! takes an arm that stays ready.
SpecLive ==
    /\ SpecLife
    /\ WF_vars(\E ok \in BOOLEAN : RunWatcherCommand(ok))
    /\ WF_vars(RunWatcherEvent)

(***************************************************************************)
(* watch_workspace (watcher.rs:136-147), called on a root whose immediate  *)
(* children are given by a tree: a function from paths to "absent",        *)
(* "file" or "dir".                                                        *)
(***************************************************************************)
WORKSPACE_SUBDIRS ==
    << <<"s", "r", "c">>, <<"i", "n", "c", "l", "u", "d", "e">>,
       <<"l", "i", "b">>, <<"c", "m", "a", "k", "e">>,
       <<"t", "e", "s", "t", "s">>, <<"t", "e", "s", "t">>,
       <<"m", "o", "d", "u", "l", "e", "s">> >>

\* A child of the root that the list does not name.
DOCS == <<"d", "o", "c", "s">>

\* What a child of the workspace root can be: any listed name a directory
\* or missing, cmake and test a file as well, docs always a directory.
WorkspaceKinds(name) ==
    IF name = DOCS THEN {"dir"}
    ELSE IF name \in {<<"c", "m", "a", "k", "e">>, <<"t", "e", "s", "t">>}
    THEN {"absent", "file", "dir"}
    ELSE {"absent", "dir"}

WorkspaceNames == {WORKSPACE_SUBDIRS[i] : i \in 1..Len(WORKSPACE_SUBDIRS)} \cup {DOCS}

\* The trees a workspace root can hold.
WorkspaceTrees(root) ==
    {f \in [{root \o <<n>> : n \in WorkspaceNames} -> {"absent", "file", "dir"}] :
        \A n \in WorkspaceNames : f[root \o <<n>>] \in WorkspaceKinds(n)}

\* path.exists() && path.is_dir() in a tree.
exists_and_is_dir(f, p) == p \in DOMAIN f /\ f[p] = "dir"

\* The sends of watch_workspace as it would be with exists() alone.
watch_workspace_sends_exists(x, f, root) ==
    IF get_file_watcher(x) = None THEN <<>>
    ELSE LET Found(n) == root \o <<n>> \in DOMAIN f /\ f[root \o <<n>>] # "absent"
             subdirs == SelectSeq(WORKSPACE_SUBDIRS, Found)
         IN <<WatchCommand("Watch", root)>> \o
            [i \in 1..Len(subdirs) |-> WatchCommand("Watch", root \o <<subdirs[i]>>)]

\* The commands watch_workspace sends, in order: none without a handle,
\* else Watch(root) and a Watch for every listed name that is a directory.
watch_workspace_sends(x, f, root) ==
    IF get_file_watcher(x) = None THEN <<>>
    ELSE LET Found(n) == exists_and_is_dir(f, root \o <<n>>)
             subdirs == SelectSeq(WORKSPACE_SUBDIRS, Found)
         IN <<WatchCommand("Watch", root)>> \o
            [i \in 1..Len(subdirs) |-> WatchCommand("Watch", root \o <<subdirs[i]>>)]

RECURSIVE send_all(_, _)
\* One send after the other.
send_all(x, cmds) ==
    IF cmds = <<>> THEN x ELSE send_all(send(x, Head(cmds)), Tail(cmds))

\* watch_workspace called while no command waits.
WatchWorkspace(root, f) ==
    /\ w.cmds = <<>>
    /\ w' = send_all(w, watch_workspace_sends(w, f, root))
    /\ last' = Call("watch_workspace", root, f, watch_workspace_sends(w, f, root))
    /\ UNCHANGED <<cache, now, concVars, fsVars>>

NextWorkspace ==
    \/ \E t \in Threads : InitFileWatcherEnter(t)
    \/ \E t \in Threads : InitFileWatcherClosure(t)
    \/ \E t \in Threads : InitFileWatcherReturn(t)
    \/ \E ok \in BOOLEAN : RunWatcherStart(ok)
    \/ \E f \in WorkspaceTrees(P_a) : WatchWorkspace(P_a, f)

SpecWorkspace == Init /\ [][NextWorkspace]_vars

(***************************************************************************)
(* get (cache.rs:53-61) called while other threads call insert, invalidate *)
(* and invalidate_subtree.  get runs one step at a time: the lookup that   *)
(* hands out a reference into the map, the expiry test, the clone of the   *)
(* entries one element after the other, the remove of an expired entry.    *)
(* retain visits the keys one after the other.                             *)
(***************************************************************************)
AtomicPaths == {P_a, P_ab}

\* Two snapshots no mixture or part of which is a snapshot.
AtomicSnapshots == {<<E_file, E_dir>>, <<E_dir, E_file>>}

\* The orders in which retain can come by the keys.
RetainOrders == {<<P_a, P_ab>>, <<P_ab, P_a>>}

\* self.cache.get(path)?
AtomicGetCall(t, path) ==
    /\ th[t].pc = "idle"
    /\ IF path \in DOMAIN cache
       THEN /\ th' = [th EXCEPT ![t].pc = "get_ref", ![t].path = path,
                                ![t].entries = <<>>]
            /\ UNCHANGED last
       ELSE /\ last' = Call("get", path, None, None)
            /\ UNCHANGED th
    /\ UNCHANGED <<cache, now, fsVars, watcherVars>>

\* if entry.is_expired(self.ttl) { drop(entry); ...
AtomicGetExpired(t) ==
    /\ th[t].pc = "get_ref"
    /\ th' = [th EXCEPT ![t].pc =
                 IF /\ th[t].path \in DOMAIN cache
                    /\ is_expired(cache[th[t].path], DEFAULT_TTL, now)
                 THEN "get_remove" ELSE "get_clone"]
    /\ UNCHANGED <<cache, now, last, fsVars, watcherVars>>

\* self.cache.remove(path); return None;
AtomicGetRemove(t) ==
    /\ th[t].pc = "get_remove"
    /\ ~read_locked(th, th[t].path)
    /\ cache' = MapRemove(cache, th[t].path)
    /\ last' = Call("get", th[t].path, None, None)
    /\ th' = [th EXCEPT ![t].pc = "idle", ![t].path = None,
                        ![t].entries = None]
    /\ UNCHANGED <<now, fsVars, watcherVars>>

\* Some(entry.entries.clone()): the next element is copied through the
\* reference, or none is left and the copy is returned.
AtomicGetClone(t) ==
    /\ th[t].pc = "get_clone"
    /\ LET i == Len(th[t].entries) + 1
           more == /\ th[t].path \in DOMAIN cache
                   /\ i <= Len(cache[th[t].path].entries)
       IN IF more
          THEN /\ th' = [th EXCEPT ![t].entries =
                            Append(@, cache[th[t].path].entries[i])]
               /\ UNCHANGED last
          ELSE /\ last' = Call("get", th[t].path, None, Some(th[t].entries))
               /\ th' = [th EXCEPT ![t].pc = "idle", ![t].path = None,
                                   ![t].entries = None]
    /\ UNCHANGED <<cache, now, fsVars, watcherVars>>

\* invalidate (cache.rs:76-78): one remove.
AtomicInvalidate(t, path) ==
    /\ th[t].pc = "idle"
    /\ ~read_locked(th, path)
    /\ cache' = invalidate(cache, path)
    /\ UNCHANGED <<now, last, th, fsVars, watcherVars>>

\* invalidate_subtree (cache.rs:80-82) enters retain.
AtomicRetainCall(t, root, order) ==
    /\ th[t].pc = "idle"
    /\ th' = [th EXCEPT ![t].pc = "retain", ![t].path = root,
                        ![t].entries = order]
    /\ UNCHANGED <<cache, now, last, fsVars, watcherVars>>

\* retain comes by its next key and drops it if the predicate of
\* invalidate_subtree does not keep it, or has come by every key.
AtomicRetainStep(t) ==
    /\ th[t].pc = "retain"
    /\ IF th[t].entries = <<>>
       THEN /\ th' = [th EXCEPT ![t].pc = "idle", ![t].path = None,
                                ![t].entries = None]
            /\ UNCHANGED cache
       ELSE LET k == Head(th[t].entries)
            IN /\ ~read_locked(th, k)
               /\ cache' = IF k \in DOMAIN invalidate_subtree(cache, th[t].path)
                            THEN cache ELSE MapRemove(cache, k)
               /\ th' = [th EXCEPT ![t].entries = Tail(@)]
    /\ UNCHANGED <<now, last, fsVars, watcherVars>>

\* With two keys the cache never fills and insert never enters evict_oldest.
NextAtomic ==
    \/ ConcTick
    \/ \E t \in Threads, path \in AtomicPaths, entries \in AtomicSnapshots :
          ConcInsertCall(t, path, entries)
    \/ \E t \in Threads : ConcInsertLen(t)
    \/ \E t \in Threads : ConcInsertPut(t)
    \/ \E t \in Threads, path \in AtomicPaths : AtomicGetCall(t, path)
    \/ \E t \in Threads : AtomicGetExpired(t)
    \/ \E t \in Threads : AtomicGetRemove(t)
    \/ \E t \in Threads : AtomicGetClone(t)
    \/ \E t \in Threads, path \in AtomicPaths : AtomicInvalidate(t, path)
    \/ \E t \in Threads, root \in AtomicPaths, order \in RetainOrders :
          AtomicRetainCall(t, root, order)
    \/ \E t \in Threads : AtomicRetainStep(t)

SpecAtomic == Init /\ [][NextAtomic]_vars

(***************************************************************************)
(* stats (cache.rs:113-131) called while other threads call insert and     *)
(* invalidate.  stats runs one DashMap operation at a time: the iteration  *)
(* comes by the keys one after the other and counts, then len() is read.   *)
(***************************************************************************)
\* let mut expired = 0; let mut valid = 0; for entry in self.cache.iter()
StatsCall(t, order) ==
    /\ th[t].pc = "idle"
    /\ th' = [th EXCEPT ![t].pc = "stats_iter", ![t].entries = order,
                        ![t].valid = 0, ![t].expired = 0]
    /\ UNCHANGED <<cache, now, last, fsVars, watcherVars>>

\* The iteration comes by its next key and counts the entry it finds
\* there, or has come by every key.
StatsIter(t) ==
    /\ th[t].pc = "stats_iter"
    /\ IF th[t].entries = <<>>
       THEN th' = [th EXCEPT ![t].pc = "stats_len", ![t].entries = None]
       ELSE LET k == Head(th[t].entries)
                here == k \in DOMAIN cache
                old == here /\ is_expired(cache[k], DEFAULT_TTL, now)
            IN th' = [th EXCEPT ![t].entries = Tail(@),
                        ![t].expired = IF old THEN @ + 1 ELSE @,
                        ![t].valid = IF here /\ ~old THEN @ + 1 ELSE @]
    /\ UNCHANGED <<cache, now, last, fsVars, watcherVars>>

\* CacheStats { total: self.cache.len(), valid, expired }
StatsLen(t) ==
    /\ th[t].pc = "stats_len"
    /\ last' = Call("stats", None, None,
                    [total |-> Cardinality(DOMAIN cache),
                     valid |-> th[t].valid, expired |-> th[t].expired])
    /\ th' = [th EXCEPT ![t].pc = "idle", ![t].valid = 0, ![t].expired = 0]
    /\ UNCHANGED <<cache, now, fsVars, watcherVars>>

\* With two keys the cache never fills and insert never enters evict_oldest.
NextStats ==
    \/ ConcTick
    \/ \E t \in Threads, path \in AtomicPaths, entries \in Snapshots :
          ConcInsertCall(t, path, entries)
    \/ \E t \in Threads : ConcInsertLen(t)
    \/ \E t \in Threads : ConcInsertPut(t)
    \/ \E t \in Threads, path \in AtomicPaths : AtomicInvalidate(t, path)
    \/ \E t \in Threads, order \in RetainOrders : StatsCall(t, order)
    \/ \E t \in Threads : StatsIter(t)
    \/ \E t \in Threads : StatsLen(t)

SpecStats == Init /\ [][NextStats]_vars

(***************************************************************************)
(* The completion items built from a scan (path_complete.rs:122-179) by    *)
(* the five completion functions (path_complete.rs:196-329).               *)
(***************************************************************************)
\* The characters of sort texts, in the order of their code points.
Alphabet ==
    <<"!", ".", "/", "0", "1", "2", "A", "C", "L", "M", "P", "_", "a", "b",
      "c", "d", "e", "f", "g", "i", "k", "m", "n", "o", "p", "r", "s", "t",
      "v", "x">>

CharCode(ch) == CHOOSE i \in 1..Len(Alphabet) : Alphabet[i] = ch

RECURSIVE StrLess(_, _)
\* The order of String (byte by byte, a prefix first), by which a client
\* sorts on sort_text.
StrLess(s, t) ==
    IF t = <<>> THEN FALSE
    ELSE IF s = <<>> THEN TRUE
    ELSE IF Head(s) # Head(t) THEN CharCode(Head(s)) < CharCode(Head(t))
    ELSE StrLess(Tail(s), Tail(t))

\* Sort texts that put the directories with a marker last.
sort_text_marker_last(entry) ==
    IF entry.is_dir
    THEN IF entry.has_cmake THEN <<"!", "2", "_">> \o entry.name
         ELSE <<"!", "0", "_">> \o entry.name
    ELSE <<"!", "1", "_">> \o entry.name

\* path_complete.rs:141-149.
sort_text(entry) ==
    IF entry.is_dir
    THEN IF entry.has_cmake THEN <<"!", "0", "_">> \o entry.name
         ELSE <<"!", "2", "_">> \o entry.name
    ELSE <<"!", "1", "_">> \o entry.name

\* One CompletionItem: label, kind, detail and sort_text.
CompletionItem(entry, show_cmake_marker) ==
    [label |-> IF entry.is_dir THEN entry.name \o <<"/">> ELSE entry.name,
     kind |-> IF entry.is_dir THEN "FOLDER" ELSE "FILE",
     detail |-> IF show_cmake_marker /\ entry.is_dir /\ entry.has_cmake
                THEN Some("check mark") ELSE None,
     sort_text |-> Some(sort_text(entry))]

entries_to_completions(entries, show_cmake_marker) ==
    [i \in 1..Len(entries) |-> CompletionItem(entries[i], show_cmake_marker)]

\* The policy and the show_cmake_marker of each completion function.
CompletionCallers ==
    {<<for_subdirectory, TRUE>>, <<for_include, FALSE>>,
     <<for_source_files, FALSE>>, <<for_any_file, FALSE>>,
     <<for_directory, FALSE>>}

\* One completion function on a search directory: the scan, then the items.
Complete(dir, caller) ==
    /\ cache' \in scan_directory_maps(cache, fs, dir, caller[1], now)
    /\ LET entries == scan_directory_value(cache, fs, dir, caller[1], now)
       IN last' = Call("complete", dir, <<caller[1], entries>>,
                       entries_to_completions(entries, caller[2]))
    /\ UNCHANGED <<now, concVars, fsVars, watcherVars>>

NextComplete ==
    \/ \E dir \in ScanDirs, caller \in CompletionCallers : Complete(dir, caller)
    \/ \E n \in Mutable, kind \in {"file", "dir"} : FsCreate(n, kind)
    \/ \E n \in Mutable : FsRemove(n)

SpecComplete == Init /\ [][NextComplete]_vars

(***************************************************************************)
(* scan_directory (parallel.rs:97-109) run one call at a time of the calls *)
(* it makes (get, the direct walk, the full listing, insert) beside the    *)
(* watcher task, which handles the events of the changes made under the    *)
(* directory it watches.                                                   *)
(***************************************************************************)
\* The children of the watched directory that come and go.
WatchedChildren == {F_cmake, P_ab_c}

\* The policy of the scans.
RacePolicies == {for_subdirectory}

\* The event the native watcher reports for a change.
EventOfChange(n, change) ==
    <<IF change = "create"
      THEN IF fs[n] = "absent" /\ "dir" \in NodeKinds(n)
           THEN "Create(Folder)" ELSE "Create(File)"
      ELSE IF fs[n] = "dir" THEN "Remove(Folder)" ELSE "Remove(File)",
      <<n>> >>

\* if let Some(cached) = DIRECTORY_CACHE.get(&dir_path) { return ... }
ScanGet(t, dir, options) ==
    /\ th[t].pc = "idle"
    /\ cache' = get_map(cache, dir, now)
    /\ IF get_value(cache, dir, now) # None
       THEN /\ last' = Call("scan", dir, options,
                            scan_directory_value(cache, fs, dir, options, now))
            /\ UNCHANGED th
       ELSE /\ th' = [th EXCEPT ![t].pc = "scan_internal", ![t].path = dir,
                                ![t].options = options]
            /\ UNCHANGED last
    /\ UNCHANGED <<now, fsVars, watcherVars>>

\* let entries = scan_directory_internal(dir, options);
ScanInternal(t) ==
    /\ th[t].pc = "scan_internal"
    /\ th' = [th EXCEPT ![t].pc = "scan_full",
                 ![t].result =
                    scan_directory_internal(fs, th[t].path, th[t].options)]
    /\ UNCHANGED <<cache, now, last, fsVars, watcherVars>>

\* let full_entries = scan_directory_full(dir);
ScanFull(t) ==
    /\ th[t].pc = "scan_full"
    /\ th' = [th EXCEPT ![t].pc = "scan_insert",
                 ![t].entries = scan_directory_full(fs, th[t].path)]
    /\ UNCHANGED <<cache, now, last, fsVars, watcherVars>>

\* DIRECTORY_CACHE.insert(dir_path, full_entries); entries
ScanInsert(t) ==
    /\ th[t].pc = "scan_insert"
    /\ cache' \in insert(cache, th[t].path, th[t].entries, now)
    /\ last' = Call("scan", th[t].path, th[t].options, th[t].result)
    /\ th' = [th EXCEPT ![t].pc = "idle", ![t].path = None,
                        ![t].entries = None, ![t].options = None,
                        ![t].result = None]
    /\ UNCHANGED <<now, fsVars, watcherVars>>

\* Something outside the program creates or removes a child of the watched
\* directory, and the native watcher's callback queues the event.
FsChangeNotify(n, change) ==
    /\ w.task = "running"
    /\ Parent(n) \in w.watched
    /\ Len(w.events) < MaxEvents
    /\ IF change = "create"
       THEN /\ fs[n] = "absent"
            /\ IsDir(fs, Parent(n))
            /\ \E kind \in NodeKinds(n) : fs' = [fs EXCEPT ![n] = kind]
       ELSE /\ fs[n] # "absent"
            /\ fs' = [m \in Nodes |->
                        IF PathStartsWith(m, n) THEN "absent" ELSE fs[m]]
    /\ w' = [w EXCEPT !.events = Append(@, EventOfChange(n, change))]
    /\ last' = Call("fs", None, None, None)
    /\ UNCHANGED <<cache, now, concVars>>

NextRace ==
    \/ \E t \in Threads : InitFileWatcherEnter(t)
    \/ \E t \in Threads : InitFileWatcherClosure(t)
    \/ \E t \in Threads : InitFileWatcherReturn(t)
    \/ \E ok \in BOOLEAN : RunWatcherStart(ok)
    \/ HandleSend(WatchCommand("Watch", WatchDir))
    \/ RunWatcherStep
    \/ \E n \in WatchedChildren, change \in {"create", "remove"} :
          FsChangeNotify(n, change)
    \/ \E t \in Threads, options \in RacePolicies : ScanGet(t, WatchDir, options)
    \/ \E t \in Threads : ScanInternal(t)
    \/ \E t \in Threads : ScanFull(t)
    \/ \E t \in Threads : ScanInsert(t)

SpecRace == Init /\ [][NextRace]_vars

(***************************************************************************)
(* scan_directory (parallel.rs:97-109) called with a directory spelled as  *)
(* the completion functions build it, base_dir.join(partial input)         *)
(* (path_complete.rs:96-119): the key is the path as spelled, and the      *)
(* system resolves the spelling when the directory is listed.  The events  *)
(* of the native watcher name paths under the watched directory.           *)
(***************************************************************************)
DOTDOT == <<".", ".">>

\* /a/bc/../b, another spelling of /a/b.
P_ab_spelled == P_abc \o <<DOTDOT, <<"b">> >>

\* The spellings scans name the watched directory by.
Spellings == {WatchDir, P_ab_spelled}

RECURSIVE ResolveFrom(_, _, _)
\* The path a spelling leads to, component by component: .. steps from a
\* directory to its parent, and leads nowhere from what is no directory.
ResolveFrom(f, done, rest) ==
    IF rest = <<>> THEN Some(done)
    ELSE IF Head(rest) = DOTDOT
    THEN IF IsDir(f, done) THEN ResolveFrom(f, Parent(done), Tail(rest))
         ELSE None
    ELSE ResolveFrom(f, done \o <<Head(rest)>>, Tail(rest))

Resolve(f, p) == ResolveFrom(f, <<>>, p)

\* let dir_path = dir.to_path_buf();
cache_key(f, dir) == dir

\* The direct walk and the full listing of a directory given by a spelling.
scan_spelled_internal(f, dir, options) ==
    IF Resolve(f, dir) = None THEN <<>>
    ELSE scan_directory_internal(f, Resolve(f, dir)[1], options)

scan_spelled_full(f, dir) ==
    IF Resolve(f, dir) = None THEN <<>>
    ELSE scan_directory_full(f, Resolve(f, dir)[1])

\* scan_directory, whole, on a spelling.
ScanSpelled(dir, options) ==
    LET key == cache_key(fs, dir)
        hit == get_value(cache, key, now)
    IN /\ cache' \in IF hit # None THEN {get_map(cache, key, now)}
                     ELSE insert(get_map(cache, key, now), key,
                                 scan_spelled_full(fs, dir), now)
       /\ last' = Call("scan", dir, options,
                       IF hit # None THEN filter_entries(hit[1], options)
                       ELSE scan_spelled_internal(fs, dir, options))
       /\ UNCHANGED <<now, concVars, fsVars, watcherVars>>

NextSpell ==
    \/ \E t \in Threads : InitFileWatcherEnter(t)
    \/ \E t \in Threads : InitFileWatcherClosure(t)
    \/ \E t \in Threads : InitFileWatcherReturn(t)
    \/ \E ok \in BOOLEAN : RunWatcherStart(ok)
    \/ HandleSend(WatchCommand("Watch", WatchDir))
    \/ RunWatcherStep
    \/ \E n \in WatchedChildren, change \in {"create", "remove"} :
          FsChangeNotify(n, change)
    \/ \E dir \in Spellings, options \in RacePolicies : ScanSpelled(dir, options)

SpecSpell == Init /\ [][NextSpell]_vars

(***************************************************************************)
(* Scans of a directory in which a file with a capital extension and a     *)
(* directory with a dotted name come and go.                               *)
(***************************************************************************)
NextExt ==
    \/ TickPastTTL
    \/ \E options \in Policies : Scan(P_a, options)
    \/ \E n \in LateNodes, kind \in {"file", "dir"} : FsCreate(n, kind)
    \/ \E n \in LateNodes : FsRemove(n)

SpecExt == Init /\ [][NextExt]_vars

(***************************************************************************)
(* Claims about the cache under sequential calls (SpecCache).              *)
(***************************************************************************)
Keys(c) == DOMAIN c

Age(c, path, t) == t - c[path].cached_at

\* path equals root or lies under it, component by component.
IsUnder(path, root) ==
    Len(root) <= Len(path) /\ SubSeq(path, 1, Len(root)) = root

\* C1: after any sequence of sequential cache calls the number of resident
\* keys is at most MAX_CACHE_SIZE.
C1_AtMostN == Cardinality(Keys(cache)) <= MAX_CACHE_SIZE

\* An insert of a new path into a full cache has run and the cache is full.
C1_Witness ==
    /\ last.op = "insert"
    /\ last.len = MAX_CACHE_SIZE
    /\ ~last.was_key
    /\ Cardinality(Keys(cache)) = MAX_CACHE_SIZE

\* C3: an insert of a new path into a full cache removes exactly one
\* resident entry, one of minimal capture timestamp, and keeps the others;
\* a get never changes a capture timestamp.
C3_EvictsOneOldest ==
    [][
        /\ (/\ last'.op = "insert"
           /\ Cardinality(Keys(cache)) = MAX_CACHE_SIZE
           /\ last'.path \notin Keys(cache))
          => \E v \in Keys(cache) :
                /\ \A k \in Keys(cache) :
                      cache[v].cached_at <= cache[k].cached_at
                /\ Keys(cache') = (Keys(cache) \ {v}) \cup {last'.path}
                /\ \A k \in Keys(cache) \ {v} : cache'[k] = cache[k]
        /\ last'.op = "get"
          => \A k \in Keys(cache') : cache'[k].cached_at = cache[k].cached_at
      ]_vars

\* A new path went into a full cache whose entries had different ages.
C3_Witness ==
    /\ last.op = "insert"
    /\ last.len = MAX_CACHE_SIZE
    /\ ~last.was_key
    /\ \E j, k \in Keys(cache) \ {last.path} :
          cache[j].cached_at < cache[k].cached_at

\* C4: an insert of a path that is already a key of a full cache evicts
\* nothing: the keys are the same before and after.
C4_ReplaceEvictsNothing ==
    [][(/\ last'.op = "insert"
        /\ Cardinality(Keys(cache)) = MAX_CACHE_SIZE
        /\ last'.path \in Keys(cache))
       => Keys(cache') = Keys(cache)]_vars

\* C5: insert stores the entries stamped with the current time, no other
\* call changes a resident snapshot, and get returns the stored entries
\* when their age is at most DEFAULT_TTL and absent when it is above.
C5_GetWithinTTL ==
    [][
        /\ last'.op = "insert"
          => cache'[last'.path] = CachedDirectory(last'.arg, now)
        /\ \A p \in Keys(cache) \cap Keys(cache') :
             ~(last'.op = "insert" /\ last'.path = p) => cache'[p] = cache[p]
        /\ (last'.op = "get" /\ last'.path \in Keys(cache))
          => IF Age(cache, last'.path, now) <= DEFAULT_TTL
             THEN last'.result = Some(cache[last'.path].entries)
             ELSE last'.result = None
      ]_vars

\* A get at age exactly DEFAULT_TTL returned the non-empty snapshot.
C5_Witness ==
    /\ last.op = "get"
    /\ last.path \in Keys(cache)
    /\ Age(cache, last.path, now) = DEFAULT_TTL
    /\ last.result = Some(<<E_file, E_dir>>)

\* C6: a get that finds a stale entry returns absent and removes exactly
\* that key; a get that finds a fresh entry or none changes nothing.
C6_LazyExpiry ==
    [][last'.op = "get"
       => IF /\ last'.path \in Keys(cache)
             /\ Age(cache, last'.path, now) > DEFAULT_TTL
          THEN /\ last'.result = None
               /\ Keys(cache') = Keys(cache) \ {last'.path}
               /\ \A k \in Keys(cache') : cache'[k] = cache[k]
          ELSE cache' = cache
      ]_vars

\* A get found its key stale and other keys are resident.
C6_Witness ==
    /\ last.op = "get"
    /\ last.was_key
    /\ last.result = None
    /\ last.path \notin Keys(cache)
    /\ Keys(cache) # {}

\* C7: invalidate(p) removes exactly p: get(p) is absent afterwards, every
\* other path is retrievable as before with the same snapshot, and on a
\* path that is no key the cache is unchanged.
C7_InvalidateExact ==
    [][last'.op = "invalidate"
       => /\ last'.path \notin Keys(cache')
          /\ get_value(cache', last'.path, now') = None
          /\ Keys(cache') = Keys(cache) \ {last'.path}
          /\ \A q \in Keys(cache') : cache'[q] = cache[q]
          /\ \A q \in Paths \ {last'.path} :
                get_value(cache', q, now') = get_value(cache, q, now)
          /\ (last'.path \notin Keys(cache) => cache' = cache)
      ]_vars

\* An invalidate removed a resident key and left others resident.
C7_Witness ==
    /\ last.op = "invalidate"
    /\ last.was_key
    /\ Keys(cache) # {}

\* C8: invalidate_subtree(root) removes exactly the keys equal to root or
\* under it by components; every other key keeps its snapshot.
C8_SubtreeByComponents ==
    [][last'.op = "invalidate_subtree"
       => /\ Keys(cache') = {k \in Keys(cache) : ~IsUnder(k, last'.path)}
          /\ \A k \in Keys(cache') : cache'[k] = cache[k]
      ]_vars

\* invalidate_subtree(/a/b) removed /a/b and /a/bc is still resident.
C8_Witness ==
    /\ last.op = "invalidate_subtree"
    /\ last.path = P_ab
    /\ last.was_key
    /\ P_abc \in Keys(cache)
    /\ P_ab \notin Keys(cache)

\* C9: an invalidation leaves its path (and, for a subtree, every path
\* under the root) absent, and an absent path becomes present only by an
\* insert of that path.
C9_AbsentUntilInsert ==
    [][
        /\ last'.op = "invalidate" => last'.path \notin Keys(cache')
        /\ last'.op = "invalidate_subtree"
          => \A p \in Paths : IsUnder(p, last'.path) => p \notin Keys(cache')
        /\ \A p \in Paths :
             (p \notin Keys(cache) /\ p \in Keys(cache'))
             => (last'.op = "insert" /\ last'.path = p)
      ]_vars

\* A subtree invalidation of an ancestor removed a resident descendant.
C9_Witness ==
    /\ last.op = "invalidate_subtree"
    /\ last.path = P_a
    /\ last.len = MAX_CACHE_SIZE
    /\ Keys(cache) \cap {P_a, P_ab, P_abc, P_ab_c} = {}
    /\ Keys(cache) # {}

(***************************************************************************)
(* Claims about concurrent calls (SpecConc).                               *)
(***************************************************************************)
\* C2: under every interleaving of concurrent inserts of distinct new
\* paths the cache never holds more than MAX_CACHE_SIZE keys.
C2_AtMostNConcurrent == Cardinality(Keys(cache)) <= MAX_CACHE_SIZE

(***************************************************************************)
(* Claims about scans (SpecScan).                                          *)
(***************************************************************************)
\* C10: a scan of a path that does not exist or is not a directory returns
\* the empty sequence, whatever the cache holds and whatever the policy.
C10_ScanOfNonDirectoryIsEmpty ==
    (last.op = "scan" /\ ~IsDir(fs, last.path)) => last.result = <<>>

\* C11: a scan that finds a fresh snapshot for its directory returns that
\* snapshot filtered by the policy, whatever the filesystem holds, and
\* leaves the cache as it was: no key added or removed, no timestamp moved.
C11_HitLeavesCache ==
    [][(/\ last'.op = "scan"
        /\ get_value(cache, last'.path, now) # None)
       => /\ last'.result
               = filter_entries(cache[last'.path].entries, last'.arg)
          /\ cache' = cache
      ]_vars

\* A scan was answered from a snapshot that the filter shortened.
C11_Witness ==
    /\ last.op = "scan"
    /\ now = 0
    /\ last.was_key
    /\ last.result # <<>>
    /\ Len(last.result) < Len(cache[last.path].entries)

\* C12: a scan that misses the cache on an existing directory D leaves a
\* snapshot for D, stamped now, with one entry for every immediate child
\* of D (hidden ones, files and directories alike) and nothing else, each
\* described as the filesystem has it and none of it depending on the
\* policy; a get of D that follows finds that snapshot.
C12_MissStoresFullListing ==
    [][(/\ last'.op = "scan"
        /\ get_value(cache, last'.path, now) = None
        /\ IsDir(fs, last'.path))
       => LET D == last'.path
              children == {n \in Nodes : Parent(n) = D /\ fs[n] # "absent"}
          IN /\ D \in Keys(cache')
             /\ cache'[D].cached_at = now
             /\ Len(cache'[D].entries) = Cardinality(children)
             /\ \A n \in children :
                   \E i \in 1..Len(cache'[D].entries) :
                      cache'[D].entries[i]
                        = [name |-> FileName(n),
                           is_dir |-> fs[n] = "dir",
                           is_hidden |-> FileName(n)[1] = ".",
                           has_cmake |-> /\ fs[n] = "dir"
                                         /\ n \o <<CMAKELISTS>> \in Nodes
                                         /\ fs[n \o <<CMAKELISTS>>] # "absent",
                           extension |-> Extension(FileName(n))]
             /\ get_value(cache', D, now') = Some(cache'[D].entries)
      ]_vars

\* A directories-only scan of /a missed the cache and left a snapshot that
\* holds a hidden file besides what it returned.
C12_Witness ==
    /\ last.op = "scan"
    /\ ~last.was_key
    /\ last.path = P_a
    /\ last.arg = for_subdirectory
    /\ P_a \in Keys(cache)
    /\ Len(last.result) < Len(cache[P_a].entries)
    /\ \E i \in 1..Len(cache[P_a].entries) :
          cache[P_a].entries[i].is_hidden /\ ~cache[P_a].entries[i].is_dir

\* The names a result carries.
Names(entries) == {entries[i].name : i \in 1..Len(entries)}

\* No ignore rule excludes a child of dir.
NoIgnoreRule(f, dir) == \A n \in Nodes : Parent(n) = dir => ~GitIgnored(f, n)

\* C15: when a scan of a directory missed the cache and the next step is a
\* scan of the same directory under the same policy, answered from the
\* cache, with max_depth 1 and no ignore rule excluding a child of the
\* directory, the two scans return the same set of names.
C15_MissThenHitSameNames ==
    [][(/\ last.op = "scan"
        /\ ~last.was_key
        /\ last'.op = "scan"
        /\ last'.path = last.path
        /\ last'.arg = last.arg
        /\ get_value(cache, last.path, now) # None
        /\ last.arg.max_depth = Some(1)
        /\ NoIgnoreRule(fs, last.path))
       => Names(last'.result) = Names(last.result)
      ]_vars

\* A scan of depth 1 has just missed the cache on a directory no ignore
\* rule touches, returned fewer entries than it stored, and the scan that
\* would follow it finds the snapshot.
C15_Witness ==
    /\ last.op = "scan"
    /\ ~last.was_key
    /\ last.arg.max_depth = Some(1)
    /\ last.arg.extensions # None
    /\ NoIgnoreRule(fs, last.path)
    /\ last.path \in Keys(cache)
    /\ get_value(cache, last.path, now) # None
    /\ last.result # <<>>
    /\ Len(last.result) < Len(cache[last.path].entries)

\* The children of dir that are directories with a name that is not hidden.
VisibleSubdirs(f, dir) ==
    {n \in Nodes : Parent(n) = dir /\ f[n] = "dir" /\ FileName(n)[1] # "."}

\* The names of the directories a result carries.
DirNames(entries) ==
    {entries[i].name : i \in {j \in 1..Len(entries) : entries[j].is_dir}}

\* The names of the directories of a snapshot that are not hidden.
VisibleDirNames(entries) ==
    {entries[i].name :
        i \in {j \in 1..Len(entries) :
                 entries[j].is_dir /\ ~entries[j].is_hidden}}

\* C16 as claimed: under for_subdirectory or for_directory every entry a
\* scan returns is a directory and every non-hidden immediate
\* subdirectory of the scanned directory is among them.
C16_DirsOnlyAllSubdirs ==
    (last.op = "scan" /\ last.arg \in {for_subdirectory, for_directory})
    => /\ \A i \in 1..Len(last.result) : last.result[i].is_dir
       /\ \A n \in VisibleSubdirs(fs, last.path) :
             FileName(n) \in Names(last.result)

\* C16 as amended: under for_subdirectory or for_directory every entry a
\* scan returns is a directory; a scan that misses the cache returns
\* exactly the non-hidden immediate subdirectories that no ignore rule
\* excludes, and a scan answered from the cache exactly the non-hidden
\* directories of the cached snapshot.
C16_DirsOnly ==
    [][(last'.op = "scan" /\ last'.arg \in {for_subdirectory, for_directory})
       => /\ \A i \in 1..Len(last'.result) : last'.result[i].is_dir
          /\ IF get_value(cache, last'.path, now) = None
             THEN Names(last'.result)
                    = {FileName(n) :
                         n \in {m \in VisibleSubdirs(fs, last'.path) :
                                  ~GitIgnored(fs, m)}}
             ELSE Names(last'.result)
                    = VisibleDirNames(cache[last'.path].entries)
      ]_vars

\* for_subdirectory on /a/b, which holds one file and one subdirectory,
\* missed the cache and returned the subdirectory alone.
C16_Witness ==
    /\ last.op = "scan"
    /\ ~last.was_key
    /\ last.path = P_ab
    /\ last.arg = for_subdirectory
    /\ P_ab \in Keys(cache)
    /\ Len(cache[P_ab].entries) = 2
    /\ Len(last.result) = 1
    /\ last.result[1].is_dir
    /\ last.result[1].name = FileName(P_ab_c)

\* A non-directory entry carries an extension of the source-file list.
SourceFile(entry) ==
    /\ entry.extension # None
    /\ \E i \in 1..Len(SourceExtensions) :
          SourceExtensions[i] = entry.extension[1]

\* C17 as claimed: under for_source_files a scan returns a non-directory
\* only with an extension of the allow-list, and returns every non-hidden
\* immediate subdirectory of the scanned directory.
C17_SourceFilesAllDirs ==
    (last.op = "scan" /\ last.arg = for_source_files)
    => /\ \A i \in 1..Len(last.result) :
             ~last.result[i].is_dir => SourceFile(last.result[i])
       /\ \A n \in VisibleSubdirs(fs, last.path) :
             FileName(n) \in DirNames(last.result)

\* C17 as amended: under for_source_files a scan returns a non-directory
\* only with an extension of the allow-list; a scan that misses the cache
\* returns exactly the non-hidden children no ignore rule excludes that
\* are directories or files with such an extension, and a scan answered
\* from the cache returns every non-hidden directory of the snapshot.
C17_SourceFiles ==
    [][(last'.op = "scan" /\ last'.arg = for_source_files)
       => /\ \A i \in 1..Len(last'.result) :
                ~last'.result[i].is_dir => SourceFile(last'.result[i])
          /\ IF get_value(cache, last'.path, now) = None
             THEN /\ DirNames(last'.result)
                       = {FileName(n) :
                            n \in {m \in VisibleSubdirs(fs, last'.path) :
                                     ~GitIgnored(fs, m)}}
                  /\ Names(last'.result) \ DirNames(last'.result)
                       = {FileName(n) :
                            n \in {m \in Nodes :
                                     /\ Parent(m) = last'.path
                                     /\ fs[m] = "file"
                                     /\ FileName(m)[1] # "."
                                     /\ ~GitIgnored(fs, m)
                                     /\ SourceFile([extension |->
                                            Extension(FileName(m))])}}
             ELSE DirNames(last'.result)
                    = VisibleDirNames(cache[last'.path].entries)
      ]_vars

\* for_source_files on /a missed the cache and returned m.cpp and the
\* directory b, whose name has no extension, but not the hidden file.
C17_Witness ==
    /\ last.op = "scan"
    /\ ~last.was_key
    /\ last.path = P_a
    /\ last.arg = for_source_files
    /\ {FileName(F_src), FileName(P_ab)} \subseteq Names(last.result)
    /\ FileName(F_gitignore) \notin Names(last.result)
    /\ Exists(fs, F_gitignore)

\* CMakeLists.txt exists directly inside the child of dir called name.
Marker(f, dir, name) ==
    /\ dir \o <<name, CMAKELISTS>> \in Nodes
    /\ f[dir \o <<name, CMAKELISTS>>] # "absent"

\* C18: under a policy with check_cmake, a scan that misses the cache
\* returns and stores directory entries whose has_cmake says whether
\* CMakeLists.txt exists inside the directory at that moment, and a scan
\* answered from the cache returns entries of the stored listing as they
\* were stored, has_cmake included.
C18_MarkerAtListingTime ==
    [][(last'.op = "scan" /\ last'.arg.check_cmake)
       => IF get_value(cache, last'.path, now) = None
          THEN /\ \A i \in 1..Len(last'.result) :
                     last'.result[i].is_dir
                     => (last'.result[i].has_cmake
                           <=> Marker(fs, last'.path, last'.result[i].name))
               /\ last'.path \in Keys(cache')
               /\ \A j \in 1..Len(cache'[last'.path].entries) :
                     cache'[last'.path].entries[j].is_dir
                     => (cache'[last'.path].entries[j].has_cmake
                           <=> Marker(fs, last'.path,
                                      cache'[last'.path].entries[j].name))
          ELSE \A i \in 1..Len(last'.result) :
                  \E j \in 1..Len(cache[last'.path].entries) :
                     last'.result[i] = cache[last'.path].entries[j]
      ]_vars

\* for_subdirectory on /a was answered from the cache with b carrying the
\* marker and its sibling bc not.
C18_Witness ==
    /\ last.op = "scan"
    /\ now = 0
    /\ last.was_key
    /\ last.path = P_a
    /\ last.arg = for_subdirectory
    /\ \E i, j \in 1..Len(last.result) :
          /\ last.result[i].name = FileName(P_ab)
          /\ last.result[i].has_cmake
          /\ last.result[j].name = FileName(P_abc)
          /\ ~last.result[j].has_cmake

(***************************************************************************)
(* Claims about filter_entries (SpecFilter).                               *)
(***************************************************************************)
\* C13: filter_entries keeps an entry exactly when it is not hidden or
\* include_hidden is set, and dirs_only is not set or it is a directory,
\* and there is no allow-list or it is a directory or its extension is
\* present and in the list; the kept entries come in their original order.
C13_FilterKeepsExactly ==
    last.op = "filter_entries"
    => LET entries == last.arg[1]
           options == last.arg[2]
           result == last.result
           InList(e) ==
               /\ e.extension # None
               /\ \E i \in 1..Len(options.extensions[1]) :
                     options.extensions[1][i] = e.extension[1]
           Keep(e) ==
               /\ (~e.is_hidden \/ options.include_hidden)
               /\ (~options.dirs_only \/ e.is_dir)
               /\ (options.extensions = None \/ e.is_dir \/ InList(e))
           K == {j \in 1..Len(entries) : Keep(entries[j])}
       IN /\ Len(result) = Cardinality(K)
          /\ \A i \in 1..Len(result) :
                \E j \in K : /\ result[i] = entries[j]
                             /\ Cardinality({k \in K : k < j}) = i - 1

\* Under an allow-list a file with an extension outside the list was
\* dropped and the directory behind it, with the same extension, kept.
C13_Witness ==
    /\ last.op = "filter_entries"
    /\ last.arg[2].extensions # None
    /\ ~last.arg[2].dirs_only
    /\ Len(last.arg[1]) = 2
    /\ ~last.arg[1][1].is_dir /\ ~last.arg[1][1].is_hidden
    /\ last.arg[1][2].is_dir
    /\ last.arg[1][1].extension = Some(<<"t", "x", "t">>)
    /\ last.arg[1][2].extension = Some(<<"t", "x", "t">>)
    /\ last.result = <<last.arg[1][2]>>

\* C14: filter_entries applied to what filter_entries returned, under the
\* same policy, returns that same sequence.
C14_FilterIdempotent ==
    last.op = "filter_again" => last.result = last.arg[1]

\* A sequence that the first filter had shortened to one entry went
\* through the filter again.
C14_Witness ==
    /\ last.op = "filter_again"
    /\ Len(last.arg[1]) = 1
    /\ last.result # <<>>
    /\ last.arg[2].dirs_only

(***************************************************************************)
(* Claims about the watcher's event handler (SpecWatch).                   *)
(***************************************************************************)
\* The parents of the paths an event carries.
ParentsOf(paths) == {Parent(paths[i]) : i \in 1..Len(paths)}

\* C19: after an event of a kind that creates a file or folder, removes a
\* file, or renames (from, to or both), the keys are the keys before less
\* the parent of every path of the event; a get of such a parent is
\* absent, and every other key, the event's own path and what lies under
\* it included, is resident with its snapshot.
C19_EventDropsParentsOnly ==
    [][(/\ last'.op = "fs_event"
        /\ last'.arg[1] \in {"Create(File)", "Create(Folder)", "Remove(File)",
                              "Modify(Name(From))", "Modify(Name(To))",
                              "Modify(Name(Both))"})
       => /\ Keys(cache') = Keys(cache) \ ParentsOf(last'.arg[2])
          /\ \A p \in ParentsOf(last'.arg[2]) :
                get_value(cache', p, now') = None
          /\ \A k \in Keys(cache') : cache'[k] = cache[k]
      ]_vars

\* A folder-created event for /a/b found three keys and left /a/b and
\* /a/b/c resident: only the parent /a went.
C19_Witness ==
    /\ last.op = "fs_event"
    /\ last.arg = <<"Create(Folder)", <<P_ab>> >>
    /\ last.len = MAX_CACHE_SIZE
    /\ Keys(cache) = {P_ab, P_ab_c}

\* C20: after a folder-removed event for X no key equals X, lies under X
\* or equals the parent of X, and every other key is resident with its
\* snapshot.
C20_FolderRemovedDropsSubtree ==
    [][(/\ last'.op = "fs_event"
        /\ last'.arg[1] = "Remove(Folder)")
       => LET X == last'.arg[2][1]
          IN /\ Keys(cache')
                  = {k \in Keys(cache) : k # Parent(X) /\ ~IsUnder(k, X)}
             /\ \A k \in Keys(cache') : cache'[k] = cache[k]
      ]_vars

\* A folder-removed event for /a/b found three keys and left its sibling
\* /a/bc alone.
C20_Witness ==
    /\ last.op = "fs_event"
    /\ last.arg = <<"Remove(Folder)", <<P_ab>> >>
    /\ last.len = MAX_CACHE_SIZE
    /\ Keys(cache) = {P_abc}
    /\ cache[P_abc].entries # <<>>

\* C21: an event of a kind other than file or folder created, file or
\* folder removed, and rename from, to or both leaves the cache as it
\* was, whatever paths it carries.
C21_OtherKindsLeaveCache ==
    [][(/\ last'.op = "fs_event"
        /\ last'.arg[1] \notin
              {"Create(File)", "Create(Folder)", "Remove(File)",
               "Remove(Folder)", "Modify(Name(From))", "Modify(Name(To))",
               "Modify(Name(Both))"})
       => cache' = cache
      ]_vars

\* A content-modification event for /a/b/CMakeLists.txt was handled while
\* /a/b, its parent, was one of three keys, and it still is.
C21_Witness ==
    /\ last.op = "fs_event"
    /\ last.arg = <<"Modify(Data(Any))", <<F_cmake>> >>
    /\ last.len = MAX_CACHE_SIZE
    /\ P_ab \in Keys(cache)
    /\ Cardinality(Keys(cache)) = MAX_CACHE_SIZE

(***************************************************************************)
(* Claims about the watcher's life (SpecLife, SpecLive).                   *)
(***************************************************************************)
\* C22: whatever number of init_file_watcher calls run, one after the
\* other or at once, at most one task is spawned and one command queue
\* created, and every call returns the handle of that first queue.
C22_InitOnce ==
    /\ w.tasks <= 1
    /\ w.queues <= 1
    /\ last.op = "init_file_watcher" => last.result = Some(1)

\* One call of init_file_watcher has returned the handle while the other
\* thread's call is between get_or_init and its return.
C22_Witness ==
    /\ last.op = "init_file_watcher"
    /\ last.result = Some(1)
    /\ \E t \in Threads : th[t].pc = "init_get"
    /\ w.tasks = 1

\* Where the watcher's life stands.
Lifecycle(x) ==
    IF x.task = "running" THEN "Running"
    ELSE IF x.task = "shutdown" THEN "ShutDown"
    ELSE "Uninitialized"

\* C23: the watcher's life moves only from Uninitialized to Running and
\* from Running to ShutDown; once ShutDown it stays so, the task takes no
\* further command or event, its queues and registrations stay as they
\* are, and no init_file_watcher, watch or unwatch call spawns a task.
C23_ShutDownIsTerminal ==
    [][
        /\ Lifecycle(w') # Lifecycle(w)
          => <<Lifecycle(w), Lifecycle(w')>>
               \in {<<"Uninitialized", "Running">>, <<"Running", "ShutDown">>}
        /\ Lifecycle(w) = "ShutDown"
          => /\ w' = w
             /\ last' # last
                  => last'.op \notin {"command", "fs_event", "run_watcher"}
             /\ last'.op # "insert" => cache' = cache
      ]_vars

\* After the task shut down, a watch call was made and left it so.
C23_Witness ==
    /\ w.task = "shutdown"
    /\ last.op = "Watch"
    /\ w.tasks = 1

\* C24: when the native watcher could not be built, every later
\* get_file_watcher returns no handle.
C24_FailedStartLeavesNoHandle ==
    [][(w.task = "failed" /\ last'.op = "get_file_watcher")
       => last'.result = None]_vars

\* C25: watch, unwatch and shutdown return to their caller without a
\* value or an error, and when the task has exited they leave the queues,
\* the registrations and the cache as they were.
C25_SendAfterExitIsDropped ==
    [][last'.op \in {"Watch", "Unwatch", "Shutdown"}
       => /\ last'.result = None
          /\ receiver_dropped(w) => (w' = w /\ cache' = cache)
      ]_vars

\* An unwatch call was made after the task had shut down.
C25_Witness ==
    /\ last.op = "Unwatch"
    /\ w.task = "shutdown"
    /\ w.cmds = <<>>

\* C26 as claimed: every command that waits in the queue of a running
\* watcher is in the end taken by the loop, whatever events arrive.
C26_EveryCommandProcessed ==
    \A c \in Commands :
        (w.task = "running" /\ Contains(w.cmds, c))
        ~> (last.op = "command" /\ last.arg = c)

\* C26 as amended: every command that waits in the queue of a running
\* watcher is in the end taken by the loop, whatever events arrive, unless
\* the loop takes a Shutdown before it and ends.
C26_CommandProcessedOrShutDown ==
    \A c \in Commands :
        (w.task = "running" /\ Contains(w.cmds, c))
        ~> ((last.op = "command" /\ last.arg = c) \/ w.task = "shutdown")

\* The loop took a Watch command while an event was waiting.
C26_Witness ==
    /\ last.op = "command"
    /\ last.arg = WatchCommand("Watch", WatchDir)
    /\ w.task = "running"
    /\ w.events # <<>>

\* C27: every relevant event that waits in the event queue of a running
\* watcher is in the end handled, leaving the parents of its paths out of
\* the cache, whatever commands arrive, unless the loop takes a Shutdown
\* first.
C27_EventHandledOrShutDown ==
    \A e \in Events :
        (w.task = "running" /\ Contains(w.events, e) /\ e[1] \in RelevantKinds)
        ~> \/ /\ last.op = "fs_event"
              /\ last.arg = e
              /\ ParentsOf(e[2]) \cap Keys(cache) = {}
           \/ w.task = "shutdown"

\* The loop handled a file-created event, which removed the parent's key,
\* while a command was waiting.
C27_Witness ==
    /\ last.op = "fs_event"
    /\ last.arg[1] = "Create(File)"
    /\ last.len = 1
    /\ Keys(cache) = {}
    /\ w.task = "running"
    /\ w.cmds # <<>>

\* C28: once a Shutdown waits in the queue of a running watcher, the task
\* in the end leaves its loop, and then no registration and no queued
\* event is left.
C28_ShutdownExits ==
    (w.task = "running" /\ Contains(w.cmds, WatchCommand("Shutdown", None)))
    ~> (w.task = "shutdown" /\ w.watched = {} /\ w.events = <<>>)

\* The loop took the Shutdown that was queued behind another command and
\* the task is over.
C28_Witness ==
    /\ last.op = "command"
    /\ last.arg = WatchCommand("Shutdown", None)
    /\ last.len = 1
    /\ w.task = "shutdown"
    /\ w.watched = {}

(***************************************************************************)
(* Claims about watch_workspace (SpecWorkspace).                           *)
(***************************************************************************)
\* The names watch_workspace looks for under the root.
ListedNames ==
    {<<"s", "r", "c">>, <<"i", "n", "c", "l", "u", "d", "e">>,
     <<"l", "i", "b">>, <<"c", "m", "a", "k", "e">>,
     <<"t", "e", "s", "t", "s">>, <<"t", "e", "s", "t">>,
     <<"m", "o", "d", "u", "l", "e", "s">>}

\* C29: with a handle stored, watch_workspace(root) sends Watch commands
\* and nothing else, one for the root and one for root/name for exactly
\* the listed names that are directories under the root, each once, and
\* a live task finds them in its queue; with no handle stored it sends
\* nothing and changes nothing.
C29_WatchWorkspaceSends ==
    [][last' # last /\ last'.op = "watch_workspace"
       => LET root == last'.path
              f == last'.arg
              sent == last'.result
              wanted == {root} \cup
                        {root \o <<n>> : n \in {m \in ListedNames :
                                                  f[root \o <<m>>] = "dir"}}
          IN IF w.once # "set"
             THEN sent = <<>> /\ w' = w
             ELSE /\ \A i \in 1..Len(sent) : sent[i].cmd = "Watch"
                  /\ {sent[i].path : i \in 1..Len(sent)} = wanted
                  /\ Len(sent) = Cardinality(wanted)
                  /\ w.task \in {"spawned", "running"}
                       => w'.cmds = w.cmds \o sent
      ]_vars

\* watch_workspace ran with a handle on a root that holds src as a
\* directory, cmake as a file and no lib: the root and src were sent, with
\* neither cmake nor docs.
C29_Witness ==
    /\ last.op = "watch_workspace"
    /\ w.once = "set"
    /\ last.arg[P_a \o << <<"s", "r", "c">> >>] = "dir"
    /\ last.arg[P_a \o << <<"c", "m", "a", "k", "e">> >>] = "file"
    /\ last.arg[P_a \o << <<"l", "i", "b">> >>] = "absent"
    /\ Contains(w.cmds, WatchCommand("Watch", P_a \o << <<"s", "r", "c">> >>))
    /\ Contains(w.cmds, WatchCommand("Watch", P_a))
    /\ ~Contains(w.cmds, WatchCommand("Watch", P_a \o << <<"c", "m", "a", "k", "e">> >>))
    /\ ~Contains(w.cmds, WatchCommand("Watch", P_a \o <<DOCS>>))

(***************************************************************************)
(* Claims about get among concurrent writers (SpecAtomic).                 *)
(***************************************************************************)
\* C30: whatever insert, invalidate and invalidate_subtree calls run
\* beside it, a get returns either absent or one whole entry sequence that
\* a single insert was given, never a part of one or a mixture of two.
C30_GetReturnsWholeSnapshot ==
    last.op = "get" =>
        \/ last.result = None
        \/ last.result[1] \in AtomicSnapshots

\* A get has just returned a whole snapshot for a key while another
\* thread is inside an insert of the other snapshot for the same key.
C30_Witness ==
    /\ last.op = "get"
    /\ last.result # None
    /\ last.result[1] \in AtomicSnapshots
    /\ \E t \in Threads :
          /\ th[t].pc = "put"
          /\ th[t].path = last.path
          /\ th[t].entries # last.result[1]
    /\ \A t \in Threads : th[t].pc \in {"put", "idle"}

(***************************************************************************)
(* Claims about stats among concurrent writers (SpecStats).                *)
(***************************************************************************)
\* C31: every stats call, also one that runs beside insert and invalidate
\* calls, reports a total that is the sum of its valid and expired counts.
C31_StatsTotalIsSum ==
    last.op = "stats" =>
        last.result.total = last.result.valid + last.result.expired

(***************************************************************************)
(* Claims about completion items (SpecComplete).                           *)
(***************************************************************************)
\* The place of an entry among the three groups of the sort.
SortGroup(entry) ==
    IF entry.is_dir /\ entry.has_cmake THEN 0 ELSE IF entry.is_dir THEN 2 ELSE 1

\* C32: in the items a completion builds from a scan, a directory with
\* the marker has a sort text that starts with !0_, a file one that starts
\* with !1_ and any other directory one that starts with !2_, and the
\* sort text of an entry of an earlier group orders before that of an
\* entry of a later group, whatever their names.
C32_MarkerDirsSortFirst ==
    last.op = "complete" =>
        LET entries == last.arg[2]
            items == last.result
        IN /\ Len(items) = Len(entries)
           /\ \A i \in 1..Len(items) :
                 SubSeq(items[i].sort_text[1], 1, 3) =
                    <<"!", <<"0", "1", "2">>[SortGroup(entries[i]) + 1], "_">>
           /\ \A i, j \in 1..Len(items) :
                 SortGroup(entries[i]) < SortGroup(entries[j])
                 => StrLess(items[i].sort_text[1], items[j].sort_text[1])

\* A subdirectory completion returned b, which holds the marker, and bc,
\* which does not, and b sorts first although bc was listed before it or
\* after it.
C32_Witness ==
    /\ last.op = "complete"
    /\ last.arg[1] = for_subdirectory
    /\ \E i, j \in 1..Len(last.result) :
          /\ last.result[i].label = <<"b", "/">>
          /\ last.arg[2][i].has_cmake
          /\ last.result[j].label = <<"b", "c", "/">>
          /\ ~last.arg[2][j].has_cmake
          /\ StrLess(last.result[i].sort_text[1], last.result[j].sort_text[1])

C34_NoStaleRepopulation ==
    (/\ \A t \in Threads : th[t].pc = "idle"
     /\ w.task = "running"
     /\ w.events = <<>>
     /\ WatchDir \in DOMAIN cache)
    => cache[WatchDir].entries = scan_directory_full(fs, WatchDir)

(***************************************************************************)
(* Claims about get beside insert (SpecAtomic).                            *)
(***************************************************************************)
\* C35: the remove with which a get ends after it found its key expired
\* never takes away a snapshot that is not older than the TTL: a snapshot
\* another thread inserted for the key in the meantime stays.
C35_GetKeepsFreshSnapshot ==
    [][\A t \in Threads :
         (/\ th[t].pc = "get_remove"
          /\ th'[t].pc = "idle"
          /\ th[t].path \in DOMAIN cache
          /\ ~is_expired(cache[th[t].path], DEFAULT_TTL, now))
         => th[t].path \in DOMAIN cache'
      ]_vars

(***************************************************************************)
(* More claims about scans (SpecScan).                                     *)
(***************************************************************************)
\* C36: a scan of a path that is missing or is not a directory stores no
\* snapshot for the path and takes no other key out of the cache.
C36_ScanOfNoDirectoryLeavesCache ==
    [][(/\ last'.op = "scan"
        /\ cache' # cache
        /\ ~IsDir(fs, last'.path))
       => LET p == last'.path
          IN /\ p \in DOMAIN cache' => p \in DOMAIN cache /\ cache'[p] = cache[p]
             /\ \A k \in DOMAIN cache \ {p} : k \in DOMAIN cache'
      ]_vars

C38_NoSpellingAnsweredStale ==
    (w.task = "running" /\ w.events = <<>>)
    => \A dir \in Spellings :
          get_value(cache, cache_key(fs, dir), now) # None
          => get_value(cache, cache_key(fs, dir), now)[1]
                = scan_spelled_full(fs, dir)

(***************************************************************************)
(* More claims about the cache under sequential calls (SpecCache).         *)
(***************************************************************************)
\* C39: after insert(p, s2) on a cache that holds a snapshot for p, the
\* cache holds for p exactly s2, stamped with the time of the insert, a
\* get(p) at that time returns s2, and every other key the cache holds
\* afterwards was there before with the same snapshot and stamp.
C39_InsertReplacesWholesale ==
    [][(last'.op = "insert" /\ last'.was_key)
       => LET p == last'.path
              s2 == last'.arg
          IN /\ p \in DOMAIN cache'
             /\ cache'[p] = CachedDirectory(s2, now')
             /\ get_value(cache', p, now') = Some(s2)
             /\ \A k \in DOMAIN cache' \ {p} :
                   k \in DOMAIN cache /\ cache'[k] = cache[k]
      ]_vars

\* insert has just replaced the snapshot of a key the cache held, later
\* than time 0, while an older snapshot of another key stayed.
C39_Witness ==
    /\ last.op = "insert"
    /\ last.was_key
    /\ last.arg # <<>>
    /\ now > 0
    /\ last.path \in DOMAIN cache
    /\ cache[last.path] = CachedDirectory(last.arg, now)
    /\ \E k \in DOMAIN cache \ {last.path} : cache[k].cached_at < now

(***************************************************************************)
(* Claims about the extension field (SpecExt).                             *)
(***************************************************************************)
UpperCase ==
    {"A", "B", "C", "D", "E", "F", "G", "H", "I", "J", "K", "L", "M", "N",
     "O", "P", "Q", "R", "S", "T", "U", "V", "W", "X", "Y", "Z"}

\* The extension field is as the data model describes it.
ExtensionWellFormed(entry) ==
    /\ entry.is_dir => entry.extension = None
    /\ Extension(entry.name) = None => entry.extension = None
    /\ entry.extension # None
       => \A i \in 1..Len(entry.extension[1]) :
             entry.extension[1][i] \notin UpperCase

\* C40: every entry a scan returns and every entry of a snapshot it
\* stores has no extension when it is a directory or its name has none,
\* and an extension in lower case otherwise; and a scan under the
\* source-file policy that misses the cache returns the file A.CPP when
\* the directory holds it.
C40_ExtensionLowercaseOrAbsent ==
    /\ last.op = "scan"
       => \A i \in 1..Len(last.result) : ExtensionWellFormed(last.result[i])
    /\ \A k \in DOMAIN cache : \A i \in 1..Len(cache[k].entries) :
          ExtensionWellFormed(cache[k].entries[i])
    /\ (/\ last.op = "scan"
        /\ last.arg = for_source_files
        /\ ~last.was_key
        /\ fs[F_upper] = "file")
       => \E i \in 1..Len(last.result) : last.result[i].name = FileName(F_upper)

====
